---- MODULE Spec2Model ----
(***************************************************************************)
(* Van on-board computer: safety evaluation pipeline.                      *)
(*                                                                         *)
(* Units.  The firmware computes in float; the model uses integers:        *)
(*   gas concentrations in ppm, voltages in mV, currents in mA,            *)
(*   temperatures in degrees C, humidity in %, tilt in degrees,            *)
(*   time in ms (millis()).                                                *)
(* AlertLevel is the enum's integer value (NONE = 0 .. CRITICAL = 4).      *)
(***************************************************************************)
EXTENDS Integers, Sequences, FiniteSets, TLC

VARIABLES
  now,          \* millis()
  pc,           \* position in loop(): "update" -> "check" -> "done"
  sensors,      \* SystemState.sensors (availability flags)
  mode,         \* SystemState.mode
  safety,       \* SystemState.safety
  power,        \* SystemState.power
  environment,  \* SystemState.environment
  level,        \* SystemState.level
  alerts,       \* SystemState.alerts
  mq7,          \* MQ7Sensor object
  mq2,          \* MQ2Sensor object
  ina12,        \* INA226Sensor object, 12V rail
  ina5,         \* INA226Sensor object, 5V rail
  bme,          \* BME280Sensor object
  mpu,          \* MPU6050Sensor object
  sm,           \* SensorManager private fields
  asys,         \* AlertSystem private fields
  raised,       \* history: the addAlert() calls made since the last reset
  fresh,        \* history: sensors whose update() returned true in the
                \* last SensorManager::update()
  buzz,         \* history of the buzzer since the severity was last set:
                \* [since, toggles, calls, epoch]
  disp,         \* DisplayManager, the user-interface fields of SystemState,
                \* the encoder's pending button event and the LCD content
  led,          \* LEDManager
  cfg,          \* the gas threshold table compiled into the firmware
  enc           \* KY040Encoder: the push button and the user's finger

vars == <<now, pc, sensors, mode, safety, power, environment, level, alerts,
          mq7, mq2, ina12, ina5, bme, mpu, sm, asys, raised, fresh, buzz, disp, led, cfg, enc>>

----------------------------------------------------------------------------
(* Enumerations (SystemData.h)                                             *)

NONE     == 0
INFO     == 1
WARNING  == 2
DANGER   == 3
CRITICAL == 4

AlertLevels == {NONE, INFO, WARNING, DANGER, CRITICAL}

AlertTypes ==
  {"NONE", "CO_HIGH", "GPL_HIGH", "SMOKE_HIGH", "VOLTAGE_12V_LOW",
   "VOLTAGE_12V_HIGH", "VOLTAGE_5V_LOW", "VOLTAGE_5V_HIGH",
   "CURRENT_12V_HIGH", "CURRENT_5V_HIGH", "TEMP_HIGH", "TEMP_LOW",
   "HUMIDITY_HIGH", "TILT_HIGH"}

SystemModes == {"MODE_PREHEAT", "MODE_NORMAL", "MODE_SETTINGS", "MODE_ALERT"}

----------------------------------------------------------------------------
(* Thresholds and timing (config.h)                                        *)

CO_THRESHOLD_INFO       == 50
CO_THRESHOLD_WARNING    == 200
CO_THRESHOLD_DANGER     == 400
GPL_THRESHOLD_INFO      == 500
GPL_THRESHOLD_WARNING   == 1000
GPL_THRESHOLD_DANGER    == 3000
SMOKE_THRESHOLD_INFO    == 1000
SMOKE_THRESHOLD_WARNING == 1500
SMOKE_THRESHOLD_DANGER  == 2000
VOLTAGE_12V_MIN         == 10500
VOLTAGE_12V_WARNING     == 11500
VOLTAGE_12V_MAX         == 14500
VOLTAGE_5V_MIN          == 4500
VOLTAGE_5V_MAX          == 5500
CURRENT_12V_MAX         == 20000
CURRENT_5V_MAX          == 3000
TEMP_WARNING            == 35
HUMIDITY_WARNING        == 80
TILT_WARNING            == 5
INTERVAL_BME280         == 10000
INTERVAL_MPU6050        == 500
INTERVAL_INA226         == 2000
INTERVAL_MQ7            == 2000
INTERVAL_MQ2            == 2000
PREHEAT_MQ7_TIME        == 180000
PREHEAT_MQ2_TIME        == 60000

(* Alert buffer size: Alert alerts[10] *)
AlertCapacity == 10

----------------------------------------------------------------------------
(* AlertState buffer                                                       *)

EmptyAlert ==
  [type |-> "NONE", level |-> NONE, value |-> 0, threshold |-> 0,
   active |-> FALSE]

(* initSystemState(): alerts part *)
InitAlertState ==
  [currentLevel |-> NONE, primaryAlert |-> "NONE", activeAlertCount |-> 0,
   alerts |-> [i \in 0..(AlertCapacity - 1) |-> EmptyAlert],
   buzzerActive |-> FALSE, blockNavigation |-> FALSE]

(* One addAlert() invocation: its arguments *)
Call(type, lvl, value, threshold) ==
  [type |-> type, level |-> lvl, value |-> value, threshold |-> threshold]

addAlert_late_check(a, c) ==
  LET a0 == IF c.level > a.currentLevel
              THEN [a EXCEPT !.currentLevel = c.level, !.primaryAlert = c.type]
              ELSE a
  IN IF a.activeAlertCount >= AlertCapacity THEN a0
     ELSE [a0 EXCEPT !.alerts[a.activeAlertCount] =
                        [type |-> c.type, level |-> c.level, value |-> c.value,
                         threshold |-> c.threshold, active |-> TRUE],
                     !.activeAlertCount = @ + 1]

addAlert_last_wins(a, c) ==
  IF a.activeAlertCount >= AlertCapacity THEN a
  ELSE [a EXCEPT !.alerts[a.activeAlertCount] =
                     [type |-> c.type, level |-> c.level, value |-> c.value,
                      threshold |-> c.threshold, active |-> TRUE],
                 !.activeAlertCount = @ + 1,
                 !.currentLevel = c.level,
                 !.primaryAlert = c.type]

addAlert_equal_replaces(a, c) ==
  IF a.activeAlertCount >= AlertCapacity THEN a
  ELSE LET index == a.activeAlertCount
           a1 == [a EXCEPT !.alerts[index] =
                              [type |-> c.type, level |-> c.level,
                               value |-> c.value, threshold |-> c.threshold,
                               active |-> TRUE],
                           !.activeAlertCount = @ + 1]
       IN IF c.level >= a1.currentLevel
            THEN [a1 EXCEPT !.currentLevel = c.level, !.primaryAlert = c.type]
            ELSE a1

(* AlertSystem::addAlert *)
addAlert(a, c) ==
  IF a.activeAlertCount >= AlertCapacity THEN a
  ELSE LET index == a.activeAlertCount
           a1 == [a EXCEPT !.alerts[index] =
                              [type |-> c.type, level |-> c.level,
                               value |-> c.value, threshold |-> c.threshold,
                               active |-> TRUE],
                           !.activeAlertCount = @ + 1]
       IN IF c.level > a1.currentLevel
            THEN [a1 EXCEPT !.currentLevel = c.level, !.primaryAlert = c.type]
            ELSE a1

RECURSIVE addAlerts(_, _)
(* the addAlert() calls of one cycle, applied in program order *)
addAlerts(a, calls) ==
  IF calls = <<>> THEN a
  ELSE addAlerts(addAlert(a, Head(calls)), Tail(calls))

resetAlerts_keep_count(a) ==
  [a EXCEPT !.currentLevel = NONE, !.primaryAlert = "NONE",
            !.alerts = [i \in 0..(AlertCapacity - 1) |->
                          [a.alerts[i] EXCEPT !.active = FALSE]]]

resetAlerts_keep_active(a) ==
  [a EXCEPT !.activeAlertCount = 0, !.currentLevel = NONE,
            !.primaryAlert = "NONE"]

(* AlertSystem::checkAlerts, the per-cycle reset *)
resetAlerts(a) ==
  [a EXCEPT !.activeAlertCount = 0, !.currentLevel = NONE,
            !.primaryAlert = "NONE",
            !.alerts = [i \in 0..(AlertCapacity - 1) |->
                          [a.alerts[i] EXCEPT !.active = FALSE]]]

----------------------------------------------------------------------------
(* Alert rules.  Each check*Alerts() is the sequence of addAlert() calls   *)
(* it makes, in program order, for the given part of SystemState.          *)

checkGasAlerts_every_threshold(s) ==
  (IF s.coValid /\ s.coPPM > CO_THRESHOLD_DANGER
     THEN <<Call("CO_HIGH", CRITICAL, s.coPPM, CO_THRESHOLD_DANGER)>>
     ELSE <<>>)
  \o
  (IF s.coValid /\ s.coPPM > CO_THRESHOLD_WARNING
     THEN <<Call("CO_HIGH", WARNING, s.coPPM, CO_THRESHOLD_WARNING)>>
     ELSE <<>>)
  \o
  (IF s.coValid /\ s.coPPM > CO_THRESHOLD_INFO
     THEN <<Call("CO_HIGH", INFO, s.coPPM, CO_THRESHOLD_INFO)>>
     ELSE <<>>)
  \o
  (IF s.gplValid /\ s.gplPPM > GPL_THRESHOLD_INFO
     THEN <<Call("GPL_HIGH", INFO, s.gplPPM, GPL_THRESHOLD_INFO)>>
     ELSE <<>>)
  \o
  (IF s.smokeValid /\ s.smokePPM > SMOKE_THRESHOLD_INFO
     THEN <<Call("SMOKE_HIGH", INFO, s.smokePPM, SMOKE_THRESHOLD_INFO)>>
     ELSE <<>>)

checkGasAlerts_inclusive(s) ==
  (IF s.coValid /\ s.coPPM >= CO_THRESHOLD_DANGER
     THEN <<Call("CO_HIGH", CRITICAL, s.coPPM, CO_THRESHOLD_DANGER)>>
   ELSE IF s.coValid /\ s.coPPM >= CO_THRESHOLD_WARNING
     THEN <<Call("CO_HIGH", WARNING, s.coPPM, CO_THRESHOLD_WARNING)>>
   ELSE IF s.coValid /\ s.coPPM >= CO_THRESHOLD_INFO
     THEN <<Call("CO_HIGH", INFO, s.coPPM, CO_THRESHOLD_INFO)>>
   ELSE <<>>)
  \o
  (IF s.gplValid /\ s.gplPPM >= GPL_THRESHOLD_DANGER
     THEN <<Call("GPL_HIGH", CRITICAL, s.gplPPM, GPL_THRESHOLD_DANGER)>>
   ELSE IF s.gplValid /\ s.gplPPM >= GPL_THRESHOLD_WARNING
     THEN <<Call("GPL_HIGH", WARNING, s.gplPPM, GPL_THRESHOLD_WARNING)>>
   ELSE IF s.gplValid /\ s.gplPPM >= GPL_THRESHOLD_INFO
     THEN <<Call("GPL_HIGH", INFO, s.gplPPM, GPL_THRESHOLD_INFO)>>
   ELSE <<>>)
  \o
  (IF s.smokeValid /\ s.smokePPM >= SMOKE_THRESHOLD_DANGER
     THEN <<Call("SMOKE_HIGH", DANGER, s.smokePPM, SMOKE_THRESHOLD_DANGER)>>
   ELSE IF s.smokeValid /\ s.smokePPM >= SMOKE_THRESHOLD_WARNING
     THEN <<Call("SMOKE_HIGH", WARNING, s.smokePPM, SMOKE_THRESHOLD_WARNING)>>
   ELSE IF s.smokeValid /\ s.smokePPM >= SMOKE_THRESHOLD_INFO
     THEN <<Call("SMOKE_HIGH", INFO, s.smokePPM, SMOKE_THRESHOLD_INFO)>>
   ELSE <<>>)

(* AlertSystem::checkGasAlerts *)
checkGasAlerts(s) ==
  (IF s.coValid /\ s.coPPM > CO_THRESHOLD_DANGER
     THEN <<Call("CO_HIGH", CRITICAL, s.coPPM, CO_THRESHOLD_DANGER)>>
   ELSE IF s.coValid /\ s.coPPM > CO_THRESHOLD_WARNING
     THEN <<Call("CO_HIGH", WARNING, s.coPPM, CO_THRESHOLD_WARNING)>>
   ELSE IF s.coValid /\ s.coPPM > CO_THRESHOLD_INFO
     THEN <<Call("CO_HIGH", INFO, s.coPPM, CO_THRESHOLD_INFO)>>
   ELSE <<>>)
  \o
  (IF s.gplValid /\ s.gplPPM > GPL_THRESHOLD_DANGER
     THEN <<Call("GPL_HIGH", CRITICAL, s.gplPPM, GPL_THRESHOLD_DANGER)>>
   ELSE IF s.gplValid /\ s.gplPPM > GPL_THRESHOLD_WARNING
     THEN <<Call("GPL_HIGH", WARNING, s.gplPPM, GPL_THRESHOLD_WARNING)>>
   ELSE IF s.gplValid /\ s.gplPPM > GPL_THRESHOLD_INFO
     THEN <<Call("GPL_HIGH", INFO, s.gplPPM, GPL_THRESHOLD_INFO)>>
   ELSE <<>>)
  \o
  (IF s.smokeValid /\ s.smokePPM > SMOKE_THRESHOLD_DANGER
     THEN <<Call("SMOKE_HIGH", DANGER, s.smokePPM, SMOKE_THRESHOLD_DANGER)>>
   ELSE IF s.smokeValid /\ s.smokePPM > SMOKE_THRESHOLD_WARNING
     THEN <<Call("SMOKE_HIGH", WARNING, s.smokePPM, SMOKE_THRESHOLD_WARNING)>>
   ELSE IF s.smokeValid /\ s.smokePPM > SMOKE_THRESHOLD_INFO
     THEN <<Call("SMOKE_HIGH", INFO, s.smokePPM, SMOKE_THRESHOLD_INFO)>>
   ELSE <<>>)

(* AlertSystem::checkPowerAlerts *)
checkPowerAlerts(p) ==
  (IF p.voltage12VValid /\ p.voltage12V < VOLTAGE_12V_MIN
     THEN <<Call("VOLTAGE_12V_LOW", DANGER, p.voltage12V, VOLTAGE_12V_MIN)>>
   ELSE IF p.voltage12VValid /\ p.voltage12V < VOLTAGE_12V_WARNING
     THEN <<Call("VOLTAGE_12V_LOW", WARNING, p.voltage12V, VOLTAGE_12V_WARNING)>>
   ELSE <<>>)
  \o
  (IF p.voltage12VValid /\ p.voltage12V > VOLTAGE_12V_MAX
     THEN <<Call("VOLTAGE_12V_HIGH", WARNING, p.voltage12V, VOLTAGE_12V_MAX)>>
   ELSE <<>>)
  \o
  (IF p.voltage5VValid /\ p.voltage5V < VOLTAGE_5V_MIN
     THEN <<Call("VOLTAGE_5V_LOW", DANGER, p.voltage5V, VOLTAGE_5V_MIN)>>
   ELSE <<>>)
  \o
  (IF p.voltage5VValid /\ p.voltage5V > VOLTAGE_5V_MAX
     THEN <<Call("VOLTAGE_5V_HIGH", WARNING, p.voltage5V, VOLTAGE_5V_MAX)>>
   ELSE <<>>)
  \o
  (IF p.voltage12VValid /\ p.current12V > CURRENT_12V_MAX
     THEN <<Call("CURRENT_12V_HIGH", WARNING, p.current12V, CURRENT_12V_MAX)>>
   ELSE <<>>)
  \o
  (IF p.voltage5VValid /\ p.current5V > CURRENT_5V_MAX
     THEN <<Call("CURRENT_5V_HIGH", WARNING, p.current5V, CURRENT_5V_MAX)>>
   ELSE <<>>)

(* AlertSystem::checkEnvironmentAlerts *)
checkEnvironmentAlerts(e) ==
  (IF e.tempIntValid /\ e.tempInterior > TEMP_WARNING
     THEN <<Call("TEMP_HIGH", WARNING, e.tempInterior, TEMP_WARNING)>>
   ELSE <<>>)
  \o
  (IF e.tempIntValid /\ e.tempInterior < 0
     THEN <<Call("TEMP_LOW", WARNING, e.tempInterior, 0)>>
   ELSE <<>>)
  \o
  (IF e.humidityValid /\ e.humidity > HUMIDITY_WARNING
     THEN <<Call("HUMIDITY_HIGH", INFO, e.humidity, HUMIDITY_WARNING)>>
   ELSE <<>>)

(* AlertSystem::checkLevelAlerts *)
checkLevelAlerts(l) ==
  IF l.valid /\ l.totalTilt > TILT_WARNING
    THEN <<Call("TILT_HIGH", WARNING, l.totalTilt, TILT_WARNING)>>
    ELSE <<>>

(* AlertSystem::checkAlerts lines 146-154: the calls of one cycle *)
cycleCalls(s, p, e, l) ==
  (IF s.mq7Preheated /\ s.mq2Preheated THEN checkGasAlerts(s) ELSE <<>>)
  \o checkPowerAlerts(p) \o checkEnvironmentAlerts(e) \o checkLevelAlerts(l)

(* config.h, the gas thresholds *)
ConfigTable ==
  [coInfo |-> CO_THRESHOLD_INFO, coWarning |-> CO_THRESHOLD_WARNING,
   coDanger |-> CO_THRESHOLD_DANGER,
   gplInfo |-> GPL_THRESHOLD_INFO, gplWarning |-> GPL_THRESHOLD_WARNING,
   gplDanger |-> GPL_THRESHOLD_DANGER,
   smokeInfo |-> SMOKE_THRESHOLD_INFO,
   smokeWarning |-> SMOKE_THRESHOLD_WARNING,
   smokeDanger |-> SMOKE_THRESHOLD_DANGER]

(* AlertSystem::checkGasAlerts compiled with the threshold table t *)
checkGasAlertsWith(s, t) ==
  (IF s.coValid /\ s.coPPM > t.coDanger
     THEN <<Call("CO_HIGH", CRITICAL, s.coPPM, t.coDanger)>>
   ELSE IF s.coValid /\ s.coPPM > t.coWarning
     THEN <<Call("CO_HIGH", WARNING, s.coPPM, t.coWarning)>>
   ELSE IF s.coValid /\ s.coPPM > t.coInfo
     THEN <<Call("CO_HIGH", INFO, s.coPPM, t.coInfo)>>
   ELSE <<>>)
  \o
  (IF s.gplValid /\ s.gplPPM > t.gplDanger
     THEN <<Call("GPL_HIGH", CRITICAL, s.gplPPM, t.gplDanger)>>
   ELSE IF s.gplValid /\ s.gplPPM > t.gplWarning
     THEN <<Call("GPL_HIGH", WARNING, s.gplPPM, t.gplWarning)>>
   ELSE IF s.gplValid /\ s.gplPPM > t.gplInfo
     THEN <<Call("GPL_HIGH", INFO, s.gplPPM, t.gplInfo)>>
   ELSE <<>>)
  \o
  (IF s.smokeValid /\ s.smokePPM > t.smokeDanger
     THEN <<Call("SMOKE_HIGH", DANGER, s.smokePPM, t.smokeDanger)>>
   ELSE IF s.smokeValid /\ s.smokePPM > t.smokeWarning
     THEN <<Call("SMOKE_HIGH", WARNING, s.smokePPM, t.smokeWarning)>>
   ELSE IF s.smokeValid /\ s.smokePPM > t.smokeInfo
     THEN <<Call("SMOKE_HIGH", INFO, s.smokePPM, t.smokeInfo)>>
   ELSE <<>>)

(* AlertSystem::checkAlerts lines 146-154 compiled with the table t *)
cycleCallsWith(s, p, e, l, t) ==
  (IF s.mq7Preheated /\ s.mq2Preheated THEN checkGasAlertsWith(s, t)
   ELSE <<>>)
  \o checkPowerAlerts(p) \o checkEnvironmentAlerts(e) \o checkLevelAlerts(l)

----------------------------------------------------------------------------
(* AlertSystem::updateAlertMode                                            *)
(* r = [alerts, mode, asys]                                                *)

updateAlertMode_restarts_cadence(r) ==
  LET lv == r.alerts.currentLevel IN
  IF lv >= WARNING
    THEN [alerts |-> [r.alerts EXCEPT !.buzzerActive = TRUE,
                                      !.blockNavigation = (lv >= DANGER)],
          mode |-> IF lv >= DANGER THEN "MODE_ALERT" ELSE r.mode,
          asys |-> [r.asys EXCEPT
                      !.buzzerInterval = IF lv = CRITICAL THEN 0
                                         ELSE IF lv = DANGER THEN 200
                                         ELSE 1000,
                      !.buzzerState = FALSE]]
  ELSE [alerts |-> [r.alerts EXCEPT !.buzzerActive = FALSE,
                                    !.blockNavigation = FALSE],
        mode |-> IF r.mode = "MODE_ALERT" THEN "MODE_NORMAL" ELSE r.mode,
        asys |-> r.asys]

updateAlertMode_one_cadence(r) ==
  LET lv == r.alerts.currentLevel IN
  IF lv >= INFO
    THEN [alerts |-> [r.alerts EXCEPT !.buzzerActive = TRUE,
                                      !.blockNavigation = (lv >= DANGER)],
          mode |-> IF lv >= DANGER THEN "MODE_ALERT" ELSE r.mode,
          asys |-> [r.asys EXCEPT !.buzzerInterval = 1000]]
    ELSE [alerts |-> [r.alerts EXCEPT !.buzzerActive = FALSE,
                                      !.blockNavigation = FALSE],
          mode |-> IF r.mode = "MODE_ALERT" THEN "MODE_NORMAL" ELSE r.mode,
          asys |-> r.asys]

updateAlertMode_warning_blocks(r) ==
  LET lv == r.alerts.currentLevel IN
  IF lv >= WARNING
    THEN [alerts |-> [r.alerts EXCEPT !.buzzerActive = TRUE,
                                      !.blockNavigation = TRUE],
          mode |-> "MODE_ALERT",
          asys |-> [r.asys EXCEPT !.buzzerInterval = 0]]
    ELSE [alerts |-> [r.alerts EXCEPT !.buzzerActive = FALSE,
                                      !.blockNavigation = FALSE],
          mode |-> IF r.mode = "MODE_ALERT" THEN "MODE_NORMAL" ELSE r.mode,
          asys |-> r.asys]

updateAlertMode(r) ==
  LET lv == r.alerts.currentLevel IN
  IF lv = CRITICAL
    THEN [alerts |-> [r.alerts EXCEPT !.buzzerActive = TRUE,
                                      !.blockNavigation = TRUE],
          mode |-> "MODE_ALERT",
          asys |-> [r.asys EXCEPT !.buzzerInterval = 0]]
  ELSE IF lv = DANGER
    THEN [alerts |-> [r.alerts EXCEPT !.buzzerActive = TRUE,
                                      !.blockNavigation = TRUE],
          mode |-> "MODE_ALERT",
          asys |-> [r.asys EXCEPT !.buzzerInterval = 200]]
  ELSE IF lv = WARNING
    THEN [alerts |-> [r.alerts EXCEPT !.buzzerActive = TRUE,
                                      !.blockNavigation = FALSE],
          mode |-> r.mode,
          asys |-> [r.asys EXCEPT !.buzzerInterval = 1000]]
  ELSE \* INFO and NONE
         [alerts |-> [r.alerts EXCEPT !.buzzerActive = FALSE,
                                      !.blockNavigation = FALSE],
          mode |-> IF r.mode = "MODE_ALERT" THEN "MODE_NORMAL" ELSE r.mode,
          asys |-> r.asys]

(* AlertSystem::checkAlerts compiled with the table t *)
checkAlertsWith(r, s, p, e, l, t) ==
  IF ~r.asys.initialized THEN r
  ELSE updateAlertMode(
         [r EXCEPT !.alerts = addAlerts(resetAlerts(r.alerts),
                                        cycleCallsWith(s, p, e, l, t))])

(* AlertSystem::begin on r = [alerts, asys, sensors]; Buzzer::begin        *)
(* returns true; nothing in begin() reads the threshold table              *)
AlertSystem_begin(r) ==
  [alerts |-> [r.alerts EXCEPT !.currentLevel = NONE,
                               !.primaryAlert = "NONE",
                               !.activeAlertCount = 0,
                               !.buzzerActive = FALSE,
                               !.blockNavigation = FALSE],
   asys |-> [r.asys EXCEPT !.initialized = TRUE],
   sensors |-> [r.sensors EXCEPT !.buzzer = TRUE],
   ret |-> TRUE]

(* AlertSystem::checkAlerts on r = [alerts, mode, asys] *)
checkAlerts(r, s, p, e, l) ==
  IF ~r.asys.initialized THEN r
  ELSE updateAlertMode(
         [r EXCEPT !.alerts = addAlerts(resetAlerts(r.alerts),
                                        cycleCalls(s, p, e, l))])

updateBuzzer_late_toggle(a, present, active, t) ==
  IF ~present THEN a
  ELSE IF ~active THEN [a EXCEPT !.buzzerState = FALSE]
  ELSE IF a.buzzerInterval = 0 THEN [a EXCEPT !.buzzerState = TRUE]
  ELSE IF t - a.lastBuzzerToggle > a.buzzerInterval
         THEN [a EXCEPT !.lastBuzzerToggle = t, !.buzzerState = ~@]
         ELSE a

(* AlertSystem::updateBuzzer at millis() = t, on a = the AlertSystem       *)
(* fields; present = state.sensors.buzzer, active = alerts.buzzerActive    *)
updateBuzzer(a, present, active, t) ==
  IF ~present THEN a
  ELSE IF ~active THEN [a EXCEPT !.buzzerState = FALSE]
  ELSE IF a.buzzerInterval = 0 THEN [a EXCEPT !.buzzerState = TRUE]
  ELSE IF t - a.lastBuzzerToggle >= a.buzzerInterval
         THEN [a EXCEPT !.lastBuzzerToggle = t, !.buzzerState = ~@]
         ELSE a

silenceBuzzer_clears_alarm(r) ==
  [alerts |-> [r.alerts EXCEPT !.buzzerActive = FALSE],
   asys |-> [r.asys EXCEPT !.buzzerState = FALSE]]

(* AlertSystem::silenceBuzzer on r = [alerts, asys] *)
silenceBuzzer(r) ==
  [alerts |-> r.alerts, asys |-> [r.asys EXCEPT !.buzzerState = FALSE]]

----------------------------------------------------------------------------
(* Validation helpers (SystemData.h)                                       *)

isValidTemperature(t) == t > -50 /\ t < 100
isValidHumidity(h)    == h >= 0 /\ h <= 100
isValidVoltage(v)     == v > 0 /\ v < 20000
isValidPPM(ppm)       == ppm >= 0 /\ ppm < 10000

----------------------------------------------------------------------------
(* MQ7Sensor (CO)                                                          *)

MQ7_PREHEAT_TIME    == 180000
MQ7_HIGH_PHASE_TIME == 60000
MQ7_LOW_PHASE_TIME  == 90000

(* default of the constructor's third parameter `interval` *)
MQ7_DEFAULT_INTERVAL == 1000

(* r0 as set by the constructor, in tenths of kOhm (10.0) *)
MQ7_R0_TENTHS == 100

(* Rs/R0 in thousandths, from the raw ADC value:                           *)
(*   voltage = raw/1023*5, rs = (5-voltage)/voltage*rl, ratio = rs/r0      *)
ratioMilli(raw, rl, r0Tenths) ==
  ((1023 - raw) * rl * 10000) \div (raw * r0Tenths)

(* voltage < 0.1 with voltage = raw/1023*5 *)
adcVoltageTooLow(raw) == raw * 50 < 1023

(* pow(ratio/4.0, -1.49) rounded to a whole ppm, for the ratios the        *)
(* sensor built by SensorManager::begin() (rl = 2000, r0 = 10) can give:   *)
(* raw 1022 -> ratio 0.1957 -> 89.66 ppm, raw 1021 -> 0.3918 -> 31.87 ppm, *)
(* every raw below 1021 gives a ratio above 0.536, i.e. less than 20 ppm,  *)
(* which the range clamp maps to 0.                                        *)
MQ7_curve(rm) ==
  CASE rm = 195 -> 90
    [] rm = 391 -> 32
    [] OTHER    -> 0

(* MQ7Sensor::MQ7Sensor(analogPin, loadResistor, interval) + begin() at t *)
MQ7_new(loadResistor, interval, t) ==
  [status |-> "PREHEATING", initTime |-> t, phaseStartTime |-> t,
   isLowPhase |-> FALSE, rl |-> loadResistor, sampleInterval |-> interval,
   lastSample |-> 0, ppm |-> 0, valid |-> FALSE]

updateHeatingPhase_short_low(s, t) ==
  IF s.status = "PREHEATING"
    THEN IF t - s.initTime >= MQ7_PREHEAT_TIME
           THEN [s EXCEPT !.status = "HEATING_HIGH", !.phaseStartTime = t,
                          !.isLowPhase = FALSE]
           ELSE s
    ELSE IF t - s.phaseStartTime >= MQ7_HIGH_PHASE_TIME
           THEN [s EXCEPT !.status = "READY", !.phaseStartTime = t,
                          !.isLowPhase = ~s.isLowPhase]
           ELSE [s EXCEPT !.status = "READY"]

updateHeatingPhase_low_first(s, t) ==
  IF s.status = "PREHEATING"
    THEN IF t - s.initTime >= MQ7_PREHEAT_TIME
           THEN [s EXCEPT !.status = "HEATING_LOW", !.phaseStartTime = t,
                          !.isLowPhase = TRUE]
           ELSE s
    ELSE IF s.isLowPhase
           THEN IF t - s.phaseStartTime >= MQ7_LOW_PHASE_TIME
                  THEN [s EXCEPT !.status = "READY", !.phaseStartTime = t,
                                 !.isLowPhase = FALSE]
                  ELSE [s EXCEPT !.status = "READY"]
           ELSE IF t - s.phaseStartTime >= MQ7_HIGH_PHASE_TIME
                  THEN [s EXCEPT !.status = "READY", !.phaseStartTime = t,
                                 !.isLowPhase = TRUE]
                  ELSE [s EXCEPT !.status = "READY"]

(* MQ7Sensor::updateHeatingPhase.  After the preheat every path ends in    *)
(* the final `status = READY` assignment (lines 514-516).                  *)
updateHeatingPhase(s, t) ==
  IF s.status = "PREHEATING"
    THEN IF t - s.initTime >= MQ7_PREHEAT_TIME
           THEN [s EXCEPT !.status = "HEATING_HIGH", !.phaseStartTime = t,
                          !.isLowPhase = FALSE]
           ELSE s
    ELSE IF s.isLowPhase
           THEN IF t - s.phaseStartTime >= MQ7_LOW_PHASE_TIME
                  THEN [s EXCEPT !.status = "READY", !.phaseStartTime = t,
                                 !.isLowPhase = FALSE]
                  ELSE [s EXCEPT !.status = "READY"]
           ELSE IF t - s.phaseStartTime >= MQ7_HIGH_PHASE_TIME
                  THEN [s EXCEPT !.status = "READY", !.phaseStartTime = t,
                                 !.isLowPhase = TRUE]
                  ELSE [s EXCEPT !.status = "READY"]

MQ7_readSensor_restart_on_fail(s, raw) ==
  IF adcVoltageTooLow(raw)
    THEN [s |-> [s EXCEPT !.valid = FALSE, !.phaseStartTime = s.lastSample],
          ret |-> FALSE]
    ELSE LET rm  == ratioMilli(raw, s.rl, MQ7_R0_TENTHS)
             p0  == IF rm > 0 THEN MQ7_curve(rm) ELSE 0
             p1  == IF p0 < 20 THEN 0 ELSE p0
             p2  == IF p1 > 2000 THEN 2000 ELSE p1
         IN [s |-> [s EXCEPT !.ppm = p2, !.valid = s.isLowPhase],
             ret |-> TRUE]

(* MQ7Sensor::readSensor: [s |-> sensor after the read, ret |-> result] *)
MQ7_readSensor(s, raw) ==
  IF adcVoltageTooLow(raw)
    THEN [s |-> [s EXCEPT !.valid = FALSE], ret |-> FALSE]
    ELSE LET rm  == ratioMilli(raw, s.rl, MQ7_R0_TENTHS)
             p0  == IF rm > 0 THEN MQ7_curve(rm) ELSE 0
             p1  == IF p0 < 20 THEN 0 ELSE p0
             p2  == IF p1 > 2000 THEN 2000 ELSE p1
         IN [s |-> [s EXCEPT !.ppm = p2, !.valid = s.isLowPhase],
             ret |-> TRUE]

(* MQ7Sensor::update at millis() = t with analogRead() = raw *)
MQ7_update(s, t, raw) ==
  LET s1 == updateHeatingPhase(s, t) IN
  IF t - s1.lastSample >= s1.sampleInterval
    THEN MQ7_readSensor([s1 EXCEPT !.lastSample = t], raw)
    ELSE [s |-> s1, ret |-> FALSE]

----------------------------------------------------------------------------
(* MQ2Sensor (LPG / smoke)                                                 *)

MQ2_PREHEAT_TIME    == 180000
MQ2_SAMPLE_INTERVAL == 1000

(* r0 as set by the constructor, in tenths of kOhm (9.8) *)
MQ2_R0_TENTHS == 98

(* pow(ratio/2.5, -2.08) and pow(ratio/2.0, -2.22) rounded to a whole ppm, *)
(* for the ratios the sensor built by SensorManager::begin() (rl = 2000,   *)
(* r0 = 9.8) can give above the `ratio > 0.1` guard: raw 1022 -> ratio     *)
(* 0.1997 -> LPG 192 ppm, smoke 167 ppm; every smaller raw gives a larger  *)
(* ratio and concentrations below the range clamps (200 / 100 ppm).        *)
MQ2_lpg_curve(rm) ==
  CASE rm = 199 -> 192
    [] OTHER    -> 0

MQ2_smoke_curve(rm) ==
  CASE rm = 199 -> 167
    [] OTHER    -> 0

(* MQ2Sensor::MQ2Sensor(analogPin, loadResistor, interval) + begin() at t *)
MQ2_new(loadResistor, interval, t) ==
  [status |-> "PREHEATING", initTime |-> t, rl |-> loadResistor,
   sampleInterval |-> interval, lastSample |-> 0, rawValue |-> 0,
   lpg |-> 0, smoke |-> 0]

(* MQ2Sensor::readSensor *)
MQ2_readSensor(s, raw) ==
  IF adcVoltageTooLow(raw)
    THEN [s |-> [s EXCEPT !.rawValue = raw], ret |-> FALSE]
    ELSE LET rm == ratioMilli(raw, s.rl, MQ2_R0_TENTHS)
             l0 == IF rm > 100 THEN MQ2_lpg_curve(rm) ELSE 0
             k0 == IF rm > 100 THEN MQ2_smoke_curve(rm) ELSE 0
             l1 == IF l0 < 200 THEN 0 ELSE IF l0 > 10000 THEN 10000 ELSE l0
             k1 == IF k0 < 100 THEN 0 ELSE IF k0 > 10000 THEN 10000 ELSE k0
         IN [s |-> [s EXCEPT !.rawValue = raw, !.lpg = l1, !.smoke = k1],
             ret |-> TRUE]

(* MQ2Sensor::update *)
MQ2_update(s, t, raw) ==
  LET s1 == IF s.status = "PREHEATING" /\ t - s.initTime >= MQ2_PREHEAT_TIME
              THEN [s EXCEPT !.status = "READY"] ELSE s
  IN IF t - s1.lastSample >= s1.sampleInterval
       THEN MQ2_readSensor([s1 EXCEPT !.lastSample = t], raw)
       ELSE [s |-> s1, ret |-> FALSE]

----------------------------------------------------------------------------
(* INA226Sensor                                                            *)

(* INA226Sensor::INA226Sensor + begin() (ok = the chip answered on I2C)    *)
(* + setVoltageThresholds / setCurrentThreshold as SensorManager::begin    *)
INA226_new(interval, vMin, vMax, iMax, ok) ==
  [initialized |-> ok, status |-> IF ok THEN "OK" ELSE "NOT_FOUND",
   busVoltage |-> 0, current |-> 0, lastUpdate |-> 0,
   updateInterval |-> interval,
   voltageMin |-> vMin, voltageMax |-> vMax, currentMax |-> iMax]

(* INA226Sensor::checkLimits *)
checkLimits(s) ==
  LET s1 == IF s.busVoltage < s.voltageMin
              THEN [s EXCEPT !.status = "UNDERVOLTAGE"]
            ELSE IF s.busVoltage > s.voltageMax
              THEN [s EXCEPT !.status = "OVERFLOW"]
            ELSE s
      ok1 == ~(s.busVoltage < s.voltageMin \/ s.busVoltage > s.voltageMax)
      s2 == IF s.current > s.currentMax
              THEN [s1 EXCEPT !.status = "OVERCURRENT"] ELSE s1
      ok2 == ok1 /\ ~(s.current > s.currentMax)
  IN IF ok2 THEN [s2 EXCEPT !.status = "OK"] ELSE s2

(* INA226Sensor::readSensor; rd = [v, i] is what the chip reports *)
INA226_readSensor(s, rd) ==
  IF ~s.initialized THEN [s |-> s, ret |-> FALSE]
  ELSE [s |-> checkLimits([s EXCEPT !.busVoltage = rd.v, !.current = rd.i]),
        ret |-> TRUE]

(* INA226Sensor::update *)
INA226_update(s, t, rd) ==
  IF ~s.initialized THEN [s |-> s, ret |-> FALSE]
  ELSE IF t - s.lastUpdate < s.updateInterval THEN [s |-> s, ret |-> FALSE]
  ELSE INA226_readSensor([s EXCEPT !.lastUpdate = t], rd)

(* INA226Sensor::getData: the fields SensorManager copies *)
INA226_getData(s) ==
  [busVoltage |-> s.busVoltage, current |-> s.current,
   valid |-> (s.status = "OK")]

----------------------------------------------------------------------------
(* BME280Sensor                                                            *)

(* BME280Sensor::BME280Sensor + begin() (ok = the chip answered on I2C);   *)
(* begin() ends with a first forceUpdate() read                            *)
BME280_new(interval, ok, t) ==
  [status |-> IF ok THEN "READY" ELSE "ERROR_NOT_FOUND",
   lastUpdate |-> IF ok THEN t ELSE 0, sampleInterval |-> interval,
   temperature |-> 0, humidity |-> 0]

(* BME280Sensor::readSensor; rd = [nan, t, h]: nan = the library returned  *)
(* NaN for a value                                                         *)
BME280_readSensor(s, t, rd) ==
  IF rd.nan
    THEN [s |-> [s EXCEPT !.lastUpdate = t, !.status = "ERROR_COMM"],
          ret |-> FALSE]
    ELSE [s |-> [s EXCEPT !.lastUpdate = t, !.temperature = rd.t,
                          !.humidity = rd.h],
          ret |-> TRUE]

(* BME280Sensor::update *)
BME280_update(s, t, rd) ==
  IF s.status # "READY" THEN [s |-> s, ret |-> FALSE]
  ELSE IF t - s.lastUpdate < s.sampleInterval THEN [s |-> s, ret |-> FALSE]
  ELSE BME280_readSensor(s, t, rd)

----------------------------------------------------------------------------
(* MPU6050Sensor as SensorManager uses it: update() returns true when a    *)
(* new tilt value was taken, at most once per interval.                    *)

MPU6050_new(interval, ok) ==
  [initialized |-> ok, lastUpdate |-> 0, updateInterval |-> interval,
   totalTilt |-> 0]

(* rd = [ok, tilt] *)
MPU6050_update(s, t, rd) ==
  IF ~s.initialized THEN [s |-> s, ret |-> FALSE]
  ELSE IF t - s.lastUpdate < s.updateInterval THEN [s |-> s, ret |-> FALSE]
  ELSE IF ~rd.ok THEN [s |-> [s EXCEPT !.lastUpdate = t], ret |-> FALSE]
  ELSE [s |-> [s EXCEPT !.lastUpdate = t, !.totalTilt = rd.tilt],
        ret |-> TRUE]

----------------------------------------------------------------------------
(* SensorManager                                                           *)

updatePreheat_no_wait(r, t) ==
  IF r.sm.preheatComplete THEN r
  ELSE [sm |-> [r.sm EXCEPT !.preheatComplete = TRUE],
        safety |-> [r.safety EXCEPT !.mq2Preheated = TRUE,
                                    !.mq7Preheated = TRUE],
        mode |-> "MODE_NORMAL"]

(* SensorManager::updatePreheat on r = [sm, safety, mode] *)
updatePreheat(r, t) ==
  IF r.sm.preheatComplete THEN r
  ELSE LET elapsed == t - r.sm.preheatStartTime
           s1 == IF ~r.safety.mq2Preheated /\ elapsed >= PREHEAT_MQ2_TIME
                   THEN [r.safety EXCEPT !.mq2Preheated = TRUE] ELSE r.safety
           s2 == IF ~s1.mq7Preheated /\ elapsed >= PREHEAT_MQ7_TIME
                   THEN [s1 EXCEPT !.mq7Preheated = TRUE] ELSE s1
       IN IF s2.mq7Preheated /\ s2.mq2Preheated
            THEN [sm |-> [r.sm EXCEPT !.preheatComplete = TRUE],
                  safety |-> s2, mode |-> "MODE_NORMAL"]
            ELSE [sm |-> r.sm, safety |-> s2, mode |-> r.mode]

(* SensorManager::updateBME280: [env, bme] *)
updateBME280(e, b, present, t, rd) ==
  IF ~present THEN [env |-> e, bme |-> b, ret |-> FALSE]
  ELSE LET u == BME280_update(b, t, rd) IN
       IF u.ret
         THEN [env |-> [e EXCEPT !.tempInterior = u.s.temperature,
                                 !.humidity = u.s.humidity,
                                 !.tempIntValid =
                                    isValidTemperature(u.s.temperature),
                                 !.humidityValid =
                                    isValidHumidity(u.s.humidity)],
               bme |-> u.s, ret |-> TRUE]
         ELSE [env |-> e, bme |-> u.s, ret |-> FALSE]

(* SensorManager::updateMPU6050: [level, mpu] *)
updateMPU6050(l, m, present, t, rd) ==
  IF ~present THEN [level |-> l, mpu |-> m, ret |-> FALSE]
  ELSE LET u == MPU6050_update(m, t, rd) IN
       IF u.ret
         THEN [level |-> [l EXCEPT !.totalTilt = u.s.totalTilt,
                                   !.valid = TRUE],
               mpu |-> u.s, ret |-> TRUE]
         ELSE [level |-> l, mpu |-> u.s, ret |-> FALSE]

updateMQ7_stores_failed_read(sf, q, present, t, raw) ==
  IF ~present THEN [safety |-> sf, mq7 |-> q, ret |-> FALSE]
  ELSE LET u == MQ7_update(q, t, raw) IN
       IF u.ret
         THEN [safety |-> [sf EXCEPT !.coPPM = u.s.ppm,
                                     !.coValid = sf.mq7Preheated
                                                 /\ isValidPPM(u.s.ppm)],
               mq7 |-> u.s, ret |-> TRUE]
         ELSE [safety |-> [sf EXCEPT !.coPPM = 0, !.coValid = FALSE],
               mq7 |-> u.s, ret |-> FALSE]

(* SensorManager::updateMQ7: [safety, mq7] *)
updateMQ7(sf, q, present, t, raw) ==
  IF ~present THEN [safety |-> sf, mq7 |-> q, ret |-> FALSE]
  ELSE LET u == MQ7_update(q, t, raw) IN
       IF u.ret
         THEN [safety |-> [sf EXCEPT !.coPPM = u.s.ppm,
                                     !.coValid = sf.mq7Preheated
                                                 /\ isValidPPM(u.s.ppm)],
               mq7 |-> u.s, ret |-> TRUE]
         ELSE [safety |-> sf, mq7 |-> u.s, ret |-> FALSE]

(* SensorManager::updateMQ2: [safety, mq2] *)
updateMQ2(sf, q, present, t, raw) ==
  IF ~present THEN [safety |-> sf, mq2 |-> q, ret |-> FALSE]
  ELSE LET u == MQ2_update(q, t, raw) IN
       IF u.ret
         THEN [safety |-> [sf EXCEPT !.gplPPM = u.s.lpg,
                                     !.smokePPM = u.s.smoke,
                                     !.gplValid = sf.mq2Preheated
                                                  /\ isValidPPM(u.s.lpg),
                                     !.smokeValid = sf.mq2Preheated
                                                    /\ isValidPPM(u.s.smoke)],
               mq2 |-> u.s, ret |-> TRUE]
         ELSE [safety |-> sf, mq2 |-> u.s, ret |-> FALSE]

(* SensorManager::updateINA226: [power, ina12, ina5] *)
updateINA226(p, s12, s5, present12, present5, t, rd12, rd5) ==
  LET u12 == IF present12 THEN INA226_update(s12, t, rd12)
                          ELSE [s |-> s12, ret |-> FALSE]
      d12 == INA226_getData(u12.s)
      p1  == IF u12.ret
               THEN [p EXCEPT !.voltage12V = d12.busVoltage,
                              !.current12V = d12.current,
                              !.voltage12VValid =
                                 d12.valid /\ isValidVoltage(d12.busVoltage)]
               ELSE p
      u5  == IF present5 THEN INA226_update(s5, t, rd5)
                         ELSE [s |-> s5, ret |-> FALSE]
      d5  == INA226_getData(u5.s)
      p2  == IF u5.ret
               THEN [p1 EXCEPT !.voltage5V = d5.busVoltage,
                               !.current5V = d5.current,
                               !.voltage5VValid =
                                  d5.valid /\ isValidVoltage(d5.busVoltage)]
               ELSE p1
  IN [power |-> p2, ina12 |-> u12.s, ina5 |-> u5.s,
      ret12 |-> u12.ret, ret5 |-> u5.ret]

----------------------------------------------------------------------------
(* DisplayManager.  r = [mode, alerts, safety, sensors, disp].  disp holds *)
(* the DisplayManager fields (initialized, lastUpdate,                     *)
(* lastEncoderActivity, forceRedraw), the user-interface fields of         *)
(* SystemState (currentScreen, backlightOn, calibrationMode), the          *)
(* encoder's lastButtonEvent, what the LCD shows (lcd), and as history     *)
(* the rotation seen by the last update() and whether it refreshed.        *)

INTERVAL_DISPLAY      == 100
INTERVAL_LEDS         == 50
LCD_BACKLIGHT_TIMEOUT == 600000

Screens ==
  {"SCREEN_HOME", "SCREEN_ENVIRONMENT", "SCREEN_ENERGY", "SCREEN_SAFETY",
   "SCREEN_LEVEL", "SCREEN_SETTINGS"}

(* LCD content: the show*Screen() that drew it and, on the safety screen,  *)
(* the status printed for each gas                                         *)
Lcd(screen, co, gpl, smoke) ==
  [screen |-> screen, co |-> co, gpl |-> gpl, smoke |-> smoke]

(* DisplayManager::begin with LCD and encoder found, after initSystemState *)
DisplayManager_new ==
  [initialized |-> TRUE, lastUpdate |-> 0, lastEncoderActivity |-> 0,
   forceRedraw |-> TRUE, currentScreen |-> "SCREEN_HOME",
   backlightOn |-> TRUE, calibrationMode |-> FALSE,
   lastButtonEvent |-> "NONE", lcd |-> Lcd("BOOT", "", "", ""),
   rot |-> "NONE", refreshed |-> FALSE]

(* DisplayManager::nextScreen *)
nextScreen(scr) ==
  CASE scr = "SCREEN_HOME"        -> "SCREEN_ENVIRONMENT"
    [] scr = "SCREEN_ENVIRONMENT" -> "SCREEN_ENERGY"
    [] scr = "SCREEN_ENERGY"      -> "SCREEN_SAFETY"
    [] scr = "SCREEN_SAFETY"      -> "SCREEN_LEVEL"
    [] scr = "SCREEN_LEVEL"       -> "SCREEN_HOME"
    [] OTHER                      -> "SCREEN_HOME"

(* DisplayManager::previousScreen *)
previousScreen(scr) ==
  CASE scr = "SCREEN_HOME"        -> "SCREEN_LEVEL"
    [] scr = "SCREEN_LEVEL"       -> "SCREEN_SAFETY"
    [] scr = "SCREEN_SAFETY"      -> "SCREEN_ENERGY"
    [] scr = "SCREEN_ENERGY"      -> "SCREEN_ENVIRONMENT"
    [] scr = "SCREEN_ENVIRONMENT" -> "SCREEN_HOME"
    [] OTHER                      -> "SCREEN_HOME"

handleButtonClick_acknowledges(r) ==
  IF r.disp.currentScreen = "SCREEN_SETTINGS"
    THEN [r EXCEPT !.disp.calibrationMode = TRUE]
  ELSE IF r.disp.currentScreen = "SCREEN_SAFETY"
    THEN [r EXCEPT !.alerts.buzzerActive = FALSE]
  ELSE r

(* DisplayManager::handleButtonClick *)
handleButtonClick(r) ==
  IF r.disp.currentScreen = "SCREEN_SETTINGS"
    THEN [r EXCEPT !.disp.calibrationMode = TRUE]
    ELSE r

handleButtonEvent_ignores_block(r, event) ==
  IF event = "CLICKED" THEN handleButtonClick(r)
  ELSE IF event = "LONG_PRESS"
    THEN IF r.mode = "MODE_SETTINGS"
           THEN [r EXCEPT !.mode = "MODE_NORMAL",
                          !.disp.currentScreen = "SCREEN_HOME"]
           ELSE [r EXCEPT !.mode = "MODE_SETTINGS",
                          !.disp.currentScreen = "SCREEN_SETTINGS"]
  ELSE r

(* DisplayManager::handleButtonEvent *)
handleButtonEvent(r, event) ==
  IF event = "CLICKED" THEN handleButtonClick(r)
  ELSE IF event = "LONG_PRESS"
    THEN IF r.mode = "MODE_SETTINGS"
           THEN [r EXCEPT !.mode = "MODE_NORMAL",
                          !.disp.currentScreen = "SCREEN_HOME"]
         ELSE IF ~r.alerts.blockNavigation
           THEN [r EXCEPT !.mode = "MODE_SETTINGS",
                          !.disp.currentScreen = "SCREEN_SETTINGS"]
         ELSE r
  ELSE r

(* the button part of DisplayManager::handleEncoder: getButtonEvent()      *)
(* takes the pending event and clears it                                   *)
handleEncoderButton(r, t) ==
  LET event == r.disp.lastButtonEvent
      r0 == [r EXCEPT !.disp.lastButtonEvent = "NONE"]
  IN IF event # "NONE"
       THEN [handleButtonEvent([r0 EXCEPT !.disp.lastEncoderActivity = t],
                               event)
               EXCEPT !.disp.forceRedraw = TRUE]
       ELSE r0

(* DisplayManager::handleEncoder after encoder->update() saw rotation rot; *)
(* the two early returns leave a pending button event in the encoder       *)
handleEncoder(r, rot, t) ==
  IF rot # "NONE"
    THEN LET r1 == [r EXCEPT !.disp.lastEncoderActivity = t]
         IN IF ~r1.disp.backlightOn
              THEN [r1 EXCEPT !.disp.backlightOn = TRUE]
            ELSE IF r1.alerts.blockNavigation THEN r1
            ELSE handleEncoderButton(
                   [r1 EXCEPT !.disp.currentScreen =
                                 IF rot = "CLOCKWISE" THEN nextScreen(@)
                                 ELSE previousScreen(@),
                              !.disp.forceRedraw = TRUE], t)
    ELSE handleEncoderButton(r, t)

(* DisplayManager::handleBacklightTimeout *)
handleBacklightTimeout(r, t) ==
  IF LCD_BACKLIGHT_TIMEOUT = 0 THEN r
  ELSE IF t - r.disp.lastEncoderActivity >= LCD_BACKLIGHT_TIMEOUT
          /\ r.disp.backlightOn
    THEN [r EXCEPT !.disp.backlightOn = FALSE]
    ELSE r

(* DisplayManager::getGasStatus *)
getGasStatus(ppm, warning, danger) ==
  IF ppm >= danger THEN "[X]"
  ELSE IF ppm >= warning THEN "[!]"
  ELSE "[OK]"

(* DisplayManager::showSafetyScreen *)
showSafetyScreen(s) ==
  Lcd("SCREEN_SAFETY",
      getGasStatus(s.coPPM, CO_THRESHOLD_WARNING, CO_THRESHOLD_DANGER),
      getGasStatus(s.gplPPM, GPL_THRESHOLD_WARNING, GPL_THRESHOLD_DANGER),
      getGasStatus(s.smokePPM, SMOKE_THRESHOLD_WARNING,
                   SMOKE_THRESHOLD_DANGER))

refreshScreen_alert_by_mode(r) ==
  IF ~r.sensors.lcd THEN r
  ELSE IF r.mode = "MODE_PREHEAT"
    THEN [r EXCEPT !.disp.lcd = Lcd("PREHEAT", "", "", "")]
  ELSE IF r.mode = "MODE_ALERT"
    THEN [r EXCEPT !.disp.lcd = Lcd("ALERT", "", "", "")]
  ELSE IF r.disp.currentScreen = "SCREEN_SAFETY"
    THEN [r EXCEPT !.disp.lcd = showSafetyScreen(r.safety)]
  ELSE [r EXCEPT !.disp.lcd = Lcd(r.disp.currentScreen, "", "", "")]

(* DisplayManager::refreshScreen *)
refreshScreen(r) ==
  IF ~r.sensors.lcd THEN r
  ELSE IF r.mode = "MODE_PREHEAT"
    THEN [r EXCEPT !.disp.lcd = Lcd("PREHEAT", "", "", "")]
  ELSE IF r.alerts.blockNavigation
    THEN [r EXCEPT !.disp.lcd = Lcd("ALERT", "", "", "")]
  ELSE IF r.disp.currentScreen = "SCREEN_SAFETY"
    THEN [r EXCEPT !.disp.lcd = showSafetyScreen(r.safety)]
  ELSE [r EXCEPT !.disp.lcd = Lcd(r.disp.currentScreen, "", "", "")]

(* DisplayManager::update at millis() = t; the encoder's update() has seen *)
(* rotation rot and button event ev since the last call                    *)
DisplayManager_update(r, rot, ev, t) ==
  IF ~r.disp.initialized THEN r
  ELSE LET r0 == [r EXCEPT !.disp.rot = rot,
                           !.disp.lastButtonEvent =
                              IF ev # "NONE" THEN ev ELSE @]
           r1 == IF r.sensors.encoder THEN handleEncoder(r0, rot, t) ELSE r0
           r2 == handleBacklightTimeout(r1, t)
       IN IF t - r2.disp.lastUpdate >= INTERVAL_DISPLAY
             \/ r2.disp.forceRedraw
            THEN [refreshScreen([r2 EXCEPT !.disp.lastUpdate = t])
                    EXCEPT !.disp.forceRedraw = FALSE,
                           !.disp.refreshed = TRUE]
            ELSE [r2 EXCEPT !.disp.refreshed = FALSE]

----------------------------------------------------------------------------
(* LEDManager.  l = [initialized, lastUpdate, animation]: animation says   *)
(* whether the last refresh drew the alert animation or the indicators.    *)

(* LEDManager::begin with the strip found *)
LEDManager_new == [initialized |-> TRUE, lastUpdate |-> 0, animation |-> FALSE]

(* LEDManager::update on r = [mode, alerts, led] *)
LEDManager_update(r, t) ==
  IF ~r.led.initialized THEN r
  ELSE IF t - r.led.lastUpdate < INTERVAL_LEDS THEN r
  ELSE [r EXCEPT !.led.lastUpdate = t,
                 !.led.animation = (r.mode = "MODE_ALERT"
                                    /\ r.alerts.currentLevel >= DANGER)]

----------------------------------------------------------------------------
(* KY040Encoder: the push button.  e = [buttonState, lastButtonChange,     *)
(* buttonPressTime, longPressDetected]; the pending event lastButtonEvent  *)
(* is kept with the DisplayManager fields (disp.lastButtonEvent).  The     *)
(* other fields of enc record the physical button: pin (pressed), the time *)
(* it was pressed, how long the last completed press was held, the         *)
(* LONG_PRESS events returned and the mode when the press began.           *)

KY040_BUTTON_DEBOUNCE == 50
KY040_LONG_PRESS_TIME == 1000

(* KY040Encoder::KY040Encoder + begin() with the button released *)
KY040_new ==
  [initialized |-> TRUE, buttonState |-> FALSE, lastButtonChange |-> 0,
   buttonPressTime |-> 0, longPressDetected |-> FALSE,
   pin |-> FALSE, pressedAt |-> 0, held |-> 0, longEvents |-> 0,
   modeAtPress |-> "MODE_PREHEAT"]

(* KY040Encoder::processButton at millis() = t with digitalRead(pinSW)     *)
(* == LOW being currentState: [e |-> the encoder after the call, event |-> *)
(* the value assigned to lastButtonEvent, "NONE" when none is assigned]    *)
processButton(e, t, currentState) ==
  IF t - e.lastButtonChange < KY040_BUTTON_DEBOUNCE
    THEN [e |-> e, event |-> "NONE"]
  ELSE
    LET c == IF currentState # e.buttonState
               THEN IF currentState
                      THEN [e |-> [e EXCEPT !.lastButtonChange = t,
                                            !.buttonState = TRUE,
                                            !.buttonPressTime = t,
                                            !.longPressDetected = FALSE],
                            event |-> "PRESSED"]
                      ELSE [e |-> [e EXCEPT !.lastButtonChange = t,
                                            !.buttonState = FALSE],
                            event |-> IF t - e.buttonPressTime
                                           >= KY040_LONG_PRESS_TIME
                                        THEN "LONG_PRESS" ELSE "CLICKED"]
               ELSE [e |-> e, event |-> "NONE"]
    IN IF c.e.buttonState /\ ~c.e.longPressDetected
          /\ t - c.e.buttonPressTime >= KY040_LONG_PRESS_TIME
         THEN [e |-> [c.e EXCEPT !.longPressDetected = TRUE],
               event |-> "LONG_PRESS"]
         ELSE c

(* KY040Encoder::update, the button part *)
KY040_update(e, t, currentState) ==
  IF ~e.initialized THEN [e |-> e, event |-> "NONE"]
  ELSE processButton(e, t, currentState)

----------------------------------------------------------------------------
(* Inputs and bounds                                                       *)

MaxTime  == 420000        \* SpecMQ7: the clock stops advancing here
MaxLoopTime == 270000     \* Spec: no loop iteration starts after this time
MaxCalls == 12            \* addAlert() calls injected after one reset
MaxI2CDevices == 1        \* I2C sensors that answered in begin()

DtSet == {30000, 60000}   \* loop-to-loop clock advance in Spec

MQ7RawInputs == {0, 1022, 1023}      \* analogRead(PIN_MQ7)
MQ2RawInputs == {0, 1022}            \* analogRead(PIN_MQ2)
INA12Inputs  == {[v |-> 12000, i |-> 5000], [v |-> 10000, i |-> 5000]}
INA5Inputs   == {[v |-> 5000, i |-> 1000], [v |-> 4000, i |-> 1000]}
BMEInputs    == {[nan |-> FALSE, t |-> 40, h |-> 90],
                 [nan |-> TRUE,  t |-> 0,  h |-> 0]}
MPUInputs    == {[ok |-> TRUE, tilt |-> 0], [ok |-> TRUE, tilt |-> 10]}

----------------------------------------------------------------------------
(* State after setup(): initSystemState(), SensorManager::begin() and      *)
(* AlertSystem::begin(), all at millis() = 0.                              *)

InitSafety ==
  [coPPM |-> 0, gplPPM |-> 0, smokePPM |-> 0,
   coValid |-> FALSE, gplValid |-> FALSE, smokeValid |-> FALSE,
   mq7Preheated |-> FALSE, mq2Preheated |-> FALSE]

InitPower ==
  [voltage12V |-> 0, current12V |-> 0, voltage5V |-> 0, current5V |-> 0,
   voltage12VValid |-> FALSE, voltage5VValid |-> FALSE]

InitEnvironment ==
  [tempInterior |-> 0, humidity |-> 0,
   tempIntValid |-> FALSE, humidityValid |-> FALSE]

InitLevel == [totalTilt |-> 0, valid |-> FALSE]

(* which I2C devices answered in SensorManager::begin() *)
InitObjects(hasBme, hasMpu, has12, has5) ==
  /\ sensors = [bme280 |-> hasBme, mpu6050 |-> hasMpu, mq7 |-> TRUE,
                mq2 |-> TRUE, ina226_12v |-> has12, ina226_5v |-> has5,
                buzzer |-> TRUE, lcd |-> TRUE, encoder |-> TRUE,
                leds |-> TRUE]
  /\ mq7 = MQ7_new(INTERVAL_MQ7, MQ7_DEFAULT_INTERVAL, 0)
  /\ mq2 = MQ2_new(INTERVAL_MQ2, MQ2_SAMPLE_INTERVAL, 0)
  /\ ina12 = INA226_new(INTERVAL_INA226, VOLTAGE_12V_MIN, VOLTAGE_12V_MAX,
                        CURRENT_12V_MAX, has12)
  /\ ina5 = INA226_new(INTERVAL_INA226, VOLTAGE_5V_MIN, VOLTAGE_5V_MAX,
                       CURRENT_5V_MAX, has5)
  /\ bme = BME280_new(INTERVAL_BME280, hasBme, 0)
  /\ mpu = MPU6050_new(INTERVAL_MPU6050, hasMpu)
  /\ sm = [preheatStartTime |-> 0, preheatComplete |-> FALSE,
           initialized |-> TRUE]
  /\ asys = [initialized |-> TRUE, buzzerInterval |-> 1000,
             buzzerState |-> FALSE, lastBuzzerToggle |-> 0]
  /\ alerts = InitAlertState
  /\ raised = <<>>
  /\ fresh = {}
  /\ buzz = [since |-> 0, toggles |-> 0, calls |-> 0, epoch |-> 0]
  /\ disp = DisplayManager_new
  /\ led = LEDManager_new
  /\ cfg = ConfigTable
  /\ enc = KY040_new
  /\ now = 0

B2N(b) == IF b THEN 1 ELSE 0

Init ==
  /\ \E hasBme \in BOOLEAN, hasMpu \in BOOLEAN, has12 \in BOOLEAN,
        has5 \in BOOLEAN :
       /\ B2N(hasBme) + B2N(hasMpu) + B2N(has12) + B2N(has5) <= MaxI2CDevices
       /\ InitObjects(hasBme, hasMpu, has12, has5)
  /\ mode = "MODE_PREHEAT"
  /\ safety = InitSafety
  /\ power = InitPower
  /\ environment = InitEnvironment
  /\ level = InitLevel
  /\ pc = "update"

----------------------------------------------------------------------------
(* Actions of the control loop                                             *)

(* placeholder input for a device that is never read *)
NoReading == [none |-> TRUE]

(* SensorManager::update *)
SensorManagerUpdate ==
  /\ pc = "update"
  /\ pc' = "check"
  /\ \E raw7 \in MQ7RawInputs, raw2 \in MQ2RawInputs,
        rd12 \in IF sensors.ina226_12v THEN INA12Inputs ELSE {NoReading},
        rd5 \in IF sensors.ina226_5v THEN INA5Inputs ELSE {NoReading},
        rdb \in IF sensors.bme280 THEN BMEInputs ELSE {NoReading},
        rdm \in IF sensors.mpu6050 THEN MPUInputs ELSE {NoReading} :
       IF ~sm.initialized
         THEN UNCHANGED <<sm, safety, mode, environment, bme, level, mpu,
                          mq7, mq2, power, ina12, ina5, fresh>>
         ELSE
           LET ph == updatePreheat([sm |-> sm, safety |-> safety,
                                    mode |-> mode], now)
               ub == updateBME280(environment, bme, sensors.bme280, now, rdb)
               um == updateMPU6050(level, mpu, sensors.mpu6050, now, rdm)
               u7 == updateMQ7(ph.safety, mq7, sensors.mq7, now, raw7)
               u2 == updateMQ2(u7.safety, mq2, sensors.mq2, now, raw2)
               ui == updateINA226(power, ina12, ina5, sensors.ina226_12v,
                                  sensors.ina226_5v, now, rd12, rd5)
           IN /\ sm' = ph.sm
              /\ mode' = ph.mode
              /\ environment' = ub.env
              /\ bme' = ub.bme
              /\ level' = um.level
              /\ mpu' = um.mpu
              /\ mq7' = u7.mq7
              /\ mq2' = u2.mq2
              /\ safety' = u2.safety
              /\ power' = ui.power
              /\ ina12' = ui.ina12
              /\ ina5' = ui.ina5
              /\ fresh' = {n \in {"bme280"} : ub.ret}
                           \cup {n \in {"mpu6050"} : um.ret}
                           \cup {n \in {"mq7"} : u7.ret}
                           \cup {n \in {"mq2"} : u2.ret}
                           \cup {n \in {"ina226_12v"} : ui.ret12}
                           \cup {n \in {"ina226_5v"} : ui.ret5}
  /\ UNCHANGED <<now, sensors, alerts, asys, raised, buzz, disp, led, cfg, enc>>

(* AlertSystem::checkAlerts *)
CheckAlerts ==
  /\ pc = "check"
  /\ pc' = "done"
  /\ LET r == checkAlerts([alerts |-> alerts, mode |-> mode, asys |-> asys],
                          safety, power, environment, level)
     IN /\ alerts' = r.alerts
        /\ mode' = r.mode
        /\ asys' = r.asys
  /\ raised' = IF asys.initialized
                 THEN cycleCalls(safety, power, environment, level)
                 ELSE raised
  /\ UNCHANGED <<now, sensors, safety, power, environment, level,
                 mq7, mq2, ina12, ina5, bme, mpu, sm, fresh, buzz, disp, led, cfg, enc>>

(* loop() returns and is entered again, millis() having advanced *)
Tick ==
  /\ pc = "done"
  /\ \E dt \in DtSet : now + dt <= MaxLoopTime /\ now' = now + dt
  /\ pc' = "update"
  /\ UNCHANGED <<sensors, mode, safety, power, environment, level, alerts,
                 mq7, mq2, ina12, ina5, bme, mpu, sm, asys, raised, fresh,
                 buzz, disp, led, cfg, enc>>

Next == SensorManagerUpdate \/ CheckAlerts \/ Tick

Spec == Init /\ [][Next]_vars

----------------------------------------------------------------------------
(* SpecEval: checkAlerts() over injected sensor snapshots.  SystemState is *)
(* a plain struct handed to AlertSystem by reference; the Inject actions   *)
(* write one of its data groups, as a sensor update or a test does.        *)

(* a stored snapshot: all readings valid unless stated otherwise *)
Snap(co, coOk, p7, lpg, smoke, v12, i12, v5, i5, t, h, tilt) ==
  [safety |-> [coPPM |-> co, gplPPM |-> lpg, smokePPM |-> smoke,
               coValid |-> coOk, gplValid |-> TRUE, smokeValid |-> TRUE,
               mq7Preheated |-> p7, mq2Preheated |-> TRUE],
   power |-> [voltage12V |-> v12, current12V |-> i12, voltage5V |-> v5,
              current5V |-> i5, voltage12VValid |-> TRUE,
              voltage5VValid |-> TRUE],
   environment |-> [tempInterior |-> t, humidity |-> h,
                    tempIntValid |-> TRUE, humidityValid |-> TRUE],
   level |-> [totalTilt |-> tilt, valid |-> TRUE]]

EvalSnapshots ==
  { Snap(0,   TRUE,  TRUE,  0,    0,    12000, 5000,  5000, 1000, 20, 50, 0),
    Snap(50,  TRUE,  TRUE,  0,    0,    12000, 5000,  5000, 1000, 20, 50, 0),
    Snap(51,  TRUE,  TRUE,  0,    0,    12000, 5000,  5000, 1000, 20, 50, 0),
    Snap(250, TRUE,  TRUE,  0,    0,    12000, 5000,  5000, 1000, 20, 50, 0),
    Snap(450, TRUE,  TRUE,  0,    0,    12000, 5000,  5000, 1000, 20, 50, 0),
    Snap(450, TRUE,  FALSE, 0,    0,    12000, 5000,  5000, 1000, 20, 50, 0),
    Snap(0,   TRUE,  FALSE, 600,  2500, 12000, 5000,  5000, 1000, 20, 50, 0),
    Snap(450, FALSE, TRUE,  0,    0,    12000, 5000,  5000, 1000, 20, 50, 0),
    Snap(0,   TRUE,  TRUE,  0,    0,    10000, 5000,  5000, 1000, 20, 50, 0),
    Snap(450, TRUE,  TRUE,  0,    0,    11000, 5000,  5000, 1000, 20, 50, 0),
    Snap(51,  TRUE,  TRUE,  0,    0,    10000, 5000,  5000, 1000, 20, 50, 0),
    Snap(0,   TRUE,  TRUE,  0,    2500, 12000, 5000,  5000, 1000, 20, 50, 10),
    Snap(0,   TRUE,  TRUE,  600,  1200, 12000, 5000,  6000, 1000, 20, 50, 0),
    Snap(0,   TRUE,  TRUE,  0,    0,    12000, 5000,  5000, 1000, 20, 90, 0),
    Snap(0,   TRUE,  TRUE,  0,    0,    12000, 5000,  5000, 1000, -5, 50, 0),
    Snap(450, TRUE,  TRUE,  3500, 2500, 15000, 25000, 4000, 4000, 40, 90, 10) }

InitEval ==
  /\ InitObjects(FALSE, FALSE, FALSE, FALSE)
  /\ mode = "MODE_PREHEAT"
  /\ safety = InitSafety
  /\ power = InitPower
  /\ environment = InitEnvironment
  /\ level = InitLevel
  /\ pc = "check"

(* the data groups of SystemState are overwritten with a new snapshot *)
InjectSnapshot ==
  /\ \E sn \in EvalSnapshots :
       /\ safety' = sn.safety
       /\ power' = sn.power
       /\ environment' = sn.environment
       /\ level' = sn.level
  /\ pc' = "check"
  /\ UNCHANGED <<now, sensors, mode, alerts, mq7, mq2, ina12, ina5, bme,
                 mpu, sm, asys, raised, fresh, buzz, disp, led, cfg, enc>>

NextEval == InjectSnapshot \/ CheckAlerts

SpecEval == InitEval /\ [][NextEval]_vars

----------------------------------------------------------------------------
(* SpecAddAlert: addAlert() called directly after the per-cycle reset of   *)
(* checkAlerts(), up to MaxCalls times.                                    *)

AddInputs ==
  {Call("TEMP_HIGH", WARNING, 40, TEMP_WARNING),
   Call("VOLTAGE_5V_LOW", DANGER, 4000, VOLTAGE_5V_MIN),
   Call("CO_HIGH", CRITICAL, 450, CO_THRESHOLD_DANGER)}

(* one addAlert() call *)
AddAlertCall ==
  /\ pc = "done"
  /\ Len(raised) < MaxCalls
  /\ \E c \in AddInputs :
       /\ alerts' = addAlert(alerts, c)
       /\ raised' = Append(raised, c)
  /\ UNCHANGED <<now, pc, sensors, mode, safety, power, environment, level,
                 mq7, mq2, ina12, ina5, bme, mpu, sm, asys, fresh, buzz, disp, led, cfg, enc>>

NextAddAlert == CheckAlerts \/ AddAlertCall

SpecAddAlert == InitEval /\ [][NextAddAlert]_vars

----------------------------------------------------------------------------
(* SpecMQ7: the MQ7 sensor object alone, update() called at arbitrary      *)
(* non-decreasing times.                                                   *)

MQ7DtSet == {10000, 70000, 200000}

MQ7Tick ==
  /\ \E dt \in MQ7DtSet : now + dt <= MaxTime /\ now' = now + dt
  /\ UNCHANGED <<pc, sensors, mode, safety, power, environment, level,
                 alerts, mq7, mq2, ina12, ina5, bme, mpu, sm, asys, raised,
                 fresh, buzz, disp, led, cfg, enc>>

(* MQ7Sensor::update *)
MQ7UpdateCall ==
  /\ \E raw \in MQ7RawInputs :
       LET u == MQ7_update(mq7, now, raw)
       IN /\ mq7' = u.s
          /\ fresh' = {n \in {"mq7"} : u.ret}
  /\ UNCHANGED <<now, pc, sensors, mode, safety, power, environment, level,
                 alerts, mq2, ina12, ina5, bme, mpu, sm, asys, raised, buzz, disp, led, cfg, enc>>

NextMQ7 == MQ7Tick \/ MQ7UpdateCall

SpecMQ7 == InitEval /\ [][NextMQ7]_vars

----------------------------------------------------------------------------
(* SpecBuzzer: the severity is set by a checkAlerts() cycle on a stored    *)
(* snapshot, then loop iterations follow in which millis() advances and    *)
(* updateBuzzer() is called.  An iteration takes LoopTime, or BlockedTime  *)
(* when DS18B20Sensor::update() waits in delay() for the conversion.       *)

MaxBuzzTime == 3000       \* SpecBuzzer: the clock stops advancing here
MaxEpochs   == 2          \* SpecBuzzer: times the severity is set

(* one short loop iteration *)
LoopTime == 100

(* delay(750 / (1 << (12 - resolution))) at the default 12-bit resolution *)
BlockedTime == 750

BuzzDtSet == {LoopTime, BlockedTime}

BuzzerSnapshots ==
  { Snap(0,   TRUE, TRUE, 0, 0, 12000, 5000, 5000, 1000, 20, 50, 0),
    Snap(51,  TRUE, TRUE, 0, 0, 12000, 5000, 5000, 1000, 20, 50, 0),
    Snap(250, TRUE, TRUE, 0, 0, 12000, 5000, 5000, 1000, 20, 50, 0),
    Snap(0,   TRUE, TRUE, 0, 0, 10000, 5000, 5000, 1000, 20, 50, 0),
    Snap(450, TRUE, TRUE, 0, 0, 12000, 5000, 5000, 1000, 20, 50, 0) }

(* a new snapshot is stored and AlertSystem::checkAlerts evaluates it *)
SetSeverity ==
  /\ buzz.epoch < MaxEpochs
  /\ \E sn \in BuzzerSnapshots :
       LET r == checkAlerts([alerts |-> alerts, mode |-> mode, asys |-> asys],
                            sn.safety, sn.power, sn.environment, sn.level)
       IN /\ safety' = sn.safety
          /\ power' = sn.power
          /\ environment' = sn.environment
          /\ level' = sn.level
          /\ alerts' = r.alerts
          /\ mode' = r.mode
          /\ asys' = r.asys
          /\ raised' = cycleCalls(sn.safety, sn.power, sn.environment,
                                  sn.level)
  /\ pc' = "done"
  /\ buzz' = [since |-> now, toggles |-> 0, calls |-> 0,
              epoch |-> buzz.epoch + 1]
  /\ UNCHANGED <<now, sensors, mq7, mq2, ina12, ina5, bme, mpu, sm, fresh,
                 disp, led, cfg, enc>>

(* one loop iteration at unchanged severity: AlertSystem::updateBuzzer *)
BuzzerLoop ==
  /\ pc = "done"
  /\ \E dt \in BuzzDtSet :
       /\ now + dt <= MaxBuzzTime
       /\ now' = now + dt
       /\ asys' = updateBuzzer(asys, sensors.buzzer, alerts.buzzerActive,
                               now + dt)
  /\ buzz' = [buzz EXCEPT !.calls = @ + 1,
                          !.toggles = IF asys'.buzzerState # asys.buzzerState
                                        THEN @ + 1 ELSE @]
  /\ UNCHANGED <<pc, sensors, mode, safety, power, environment, level,
                 alerts, mq7, mq2, ina12, ina5, bme, mpu, sm, raised, fresh,
                 disp, led, cfg, enc>>

NextBuzzer == SetSeverity \/ BuzzerLoop

SpecBuzzer == InitEval /\ [][NextBuzzer]_vars

(* SpecSilence: SpecBuzzer with the operator's silence request *)

(* AlertSystem::silenceBuzzer *)
SilenceCall ==
  /\ pc = "done"
  /\ LET r == silenceBuzzer([alerts |-> alerts, asys |-> asys])
     IN /\ alerts' = r.alerts
        /\ asys' = r.asys
  /\ UNCHANGED <<now, pc, sensors, mode, safety, power, environment, level,
                 mq7, mq2, ina12, ina5, bme, mpu, sm, raised, fresh, buzz, disp, led, cfg, enc>>

NextSilence == SetSeverity \/ BuzzerLoop \/ SilenceCall

SpecSilence == InitEval /\ [][NextSilence]_vars

----------------------------------------------------------------------------
(* SpecRecheck: SpecEval in which checkAlerts() may run a second time on   *)
(* the snapshot it has just evaluated.                                     *)

(* AlertSystem::checkAlerts called again, SystemState data unchanged *)
RecheckAlerts ==
  /\ pc = "done"
  /\ LET r == checkAlerts([alerts |-> alerts, mode |-> mode, asys |-> asys],
                          safety, power, environment, level)
     IN /\ alerts' = r.alerts
        /\ mode' = r.mode
        /\ asys' = r.asys
  /\ raised' = cycleCalls(safety, power, environment, level)
  /\ pc' = "again"
  /\ UNCHANGED <<now, sensors, safety, power, environment, level,
                 mq7, mq2, ina12, ina5, bme, mpu, sm, fresh, buzz, disp, led, cfg, enc>>

NextRecheck == InjectSnapshot \/ CheckAlerts \/ RecheckAlerts

SpecRecheck == InitEval /\ [][NextRecheck]_vars

----------------------------------------------------------------------------
(* SpecDisplay: the control loop with its presentation consumers, in the   *)
(* order SensorManager::update, AlertSystem::checkAlerts,                  *)
(* DisplayManager::update, LEDManager::update.  The sensor drivers are     *)
(* replaced by the values they store; updatePreheat() runs as in the code. *)

MaxDisplayTime == 660000  \* SpecDisplay: the clock stops advancing here

(* a loop iteration shorter than the display refresh interval, and the     *)
(* time between the pairs of iterations the model looks at                 *)
DisplayShortDt == 50
DisplayLongDt  == 60000

DisplayDts(t) ==
  IF t % DisplayLongDt = 0 THEN {DisplayShortDt, DisplayLongDt}
  ELSE {DisplayLongDt - DisplayShortDt}

Rotations == {"NONE", "CLOCKWISE", "COUNTER_CLOCKWISE"}

ButtonEvents == {"NONE", "CLICKED", "LONG_PRESS"}

DisplaySnapshots ==
  { Snap(0,   TRUE, FALSE, 0, 0, 12000, 5000, 5000, 1000, 20, 50, 0),
    Snap(250, TRUE, FALSE, 0, 0, 12000, 5000, 5000, 1000, 20, 50, 0),
    Snap(450, TRUE, FALSE, 0, 0, 12000, 5000, 5000, 1000, 20, 50, 0),
    Snap(0,   TRUE, FALSE, 0, 0, 10000, 5000, 5000, 1000, 20, 50, 0) }

(* SensorManager::update: updatePreheat(), then the sensors' values are    *)
(* stored; the preheat flags are those updatePreheat() has set             *)
DisplaySense ==
  /\ pc = "update"
  /\ LET r == updatePreheat([sm |-> sm, safety |-> safety, mode |-> mode],
                            now)
     IN /\ sm' = r.sm
        /\ mode' = r.mode
        /\ \E sn \in DisplaySnapshots :
             /\ safety' = [sn.safety EXCEPT
                             !.mq7Preheated = r.safety.mq7Preheated,
                             !.mq2Preheated = r.safety.mq2Preheated]
             /\ power' = sn.power
             /\ environment' = sn.environment
             /\ level' = sn.level
  /\ pc' = "check"
  /\ UNCHANGED <<now, sensors, alerts, mq7, mq2, ina12, ina5, bme, mpu,
                 asys, raised, fresh, buzz, disp, led, cfg, enc>>

(* DisplayManager::update with the encoder activity since the last call *)
DisplayUpdate ==
  /\ pc = "done"
  /\ \E rot \in Rotations, ev \in ButtonEvents :
       LET r == DisplayManager_update(
                  [mode |-> mode, alerts |-> alerts, safety |-> safety,
                   sensors |-> sensors, disp |-> disp], rot, ev, now)
       IN /\ mode' = r.mode
          /\ alerts' = r.alerts
          /\ disp' = r.disp
  /\ pc' = "led"
  /\ UNCHANGED <<now, sensors, safety, power, environment, level,
                 mq7, mq2, ina12, ina5, bme, mpu, sm, asys, raised, fresh,
                 buzz, led, cfg, enc>>

(* LEDManager::update *)
LedUpdate ==
  /\ pc = "led"
  /\ LET r == LEDManager_update([mode |-> mode, alerts |-> alerts,
                                 led |-> led], now)
     IN /\ mode' = r.mode
        /\ alerts' = r.alerts
        /\ led' = r.led
  /\ pc' = "tick"
  /\ UNCHANGED <<now, sensors, safety, power, environment, level,
                 mq7, mq2, ina12, ina5, bme, mpu, sm, asys, raised, fresh,
                 buzz, disp, cfg, enc>>

(* loop() returns and is entered again, millis() having advanced *)
DisplayTick ==
  /\ pc = "tick"
  /\ \E dt \in DisplayDts(now) :
       now + dt <= MaxDisplayTime /\ now' = now + dt
  /\ pc' = "update"
  /\ UNCHANGED <<sensors, mode, safety, power, environment, level, alerts,
                 mq7, mq2, ina12, ina5, bme, mpu, sm, asys, raised, fresh,
                 buzz, disp, led, cfg, enc>>

NextDisplay ==
  DisplaySense \/ CheckAlerts \/ DisplayUpdate \/ LedUpdate \/ DisplayTick

SpecDisplay == InitEval /\ [][NextDisplay]_vars

----------------------------------------------------------------------------
(* SpecBegin: the firmware built with one of several gas threshold tables, *)
(* from AlertSystem::begin() into the run loop.                            *)

(* the values given to the thresholds of the CO ladder in those builds *)
LadderValues == {CO_THRESHOLD_INFO, CO_THRESHOLD_WARNING, CO_THRESHOLD_DANGER}

GasTables ==
  {[ConfigTable EXCEPT !.coInfo = i, !.coWarning = w, !.coDanger = d] :
     i \in LadderValues, w \in LadderValues, d \in LadderValues}

(* CO readings stored in the run loop *)
BeginCOInputs == {0, 100, 300, 450}

(* after the constructors and initSystemState(), before begin() *)
InitBegin ==
  /\ cfg \in GasTables
  /\ enc = KY040_new
  /\ sensors = [bme280 |-> FALSE, mpu6050 |-> FALSE, mq7 |-> TRUE,
                mq2 |-> TRUE, ina226_12v |-> FALSE, ina226_5v |-> FALSE,
                buzzer |-> FALSE, lcd |-> TRUE, encoder |-> TRUE,
                leds |-> TRUE]
  /\ asys = [initialized |-> FALSE, buzzerInterval |-> 1000,
             buzzerState |-> FALSE, lastBuzzerToggle |-> 0]
  /\ mq7 = MQ7_new(INTERVAL_MQ7, MQ7_DEFAULT_INTERVAL, 0)
  /\ mq2 = MQ2_new(INTERVAL_MQ2, MQ2_SAMPLE_INTERVAL, 0)
  /\ ina12 = INA226_new(INTERVAL_INA226, VOLTAGE_12V_MIN, VOLTAGE_12V_MAX,
                        CURRENT_12V_MAX, FALSE)
  /\ ina5 = INA226_new(INTERVAL_INA226, VOLTAGE_5V_MIN, VOLTAGE_5V_MAX,
                       CURRENT_5V_MAX, FALSE)
  /\ bme = BME280_new(INTERVAL_BME280, FALSE, 0)
  /\ mpu = MPU6050_new(INTERVAL_MPU6050, FALSE)
  /\ sm = [preheatStartTime |-> 0, preheatComplete |-> FALSE,
           initialized |-> TRUE]
  /\ alerts = InitAlertState
  /\ raised = <<>>
  /\ fresh = {}
  /\ buzz = [since |-> 0, toggles |-> 0, calls |-> 0, epoch |-> 0]
  /\ disp = DisplayManager_new
  /\ led = LEDManager_new
  /\ now = 0
  /\ mode = "MODE_PREHEAT"
  /\ safety = InitSafety
  /\ power = InitPower
  /\ environment = InitEnvironment
  /\ level = InitLevel
  /\ pc = "begin"

(* setup(): AlertSystem::begin(); the run loop is entered if it succeeds *)
AlertSystemBegin ==
  /\ pc = "begin"
  /\ LET r == AlertSystem_begin([alerts |-> alerts, asys |-> asys,
                                 sensors |-> sensors])
     IN /\ alerts' = r.alerts
        /\ asys' = r.asys
        /\ sensors' = r.sensors
        /\ pc' = IF r.ret THEN "update" ELSE "halt"
  /\ UNCHANGED <<now, mode, safety, power, environment, level, mq7, mq2,
                 ina12, ina5, bme, mpu, sm, raised, fresh, buzz, disp, led,
                 cfg, enc>>

(* run loop: a CO reading is stored, both preheats having elapsed *)
BeginStore ==
  /\ pc \in {"update", "done"}
  /\ \E co \in BeginCOInputs :
       safety' = [safety EXCEPT !.coPPM = co, !.coValid = TRUE,
                                !.mq7Preheated = TRUE,
                                !.mq2Preheated = TRUE]
  /\ pc' = "check"
  /\ UNCHANGED <<now, sensors, mode, power, environment, level, alerts,
                 mq7, mq2, ina12, ina5, bme, mpu, sm, asys, raised, fresh,
                 buzz, disp, led, cfg, enc>>

(* run loop: AlertSystem::checkAlerts as compiled with the table cfg *)
BeginCheck ==
  /\ pc = "check"
  /\ pc' = "done"
  /\ LET r == checkAlertsWith([alerts |-> alerts, mode |-> mode,
                               asys |-> asys],
                              safety, power, environment, level, cfg)
     IN /\ alerts' = r.alerts
        /\ mode' = r.mode
        /\ asys' = r.asys
  /\ raised' = cycleCallsWith(safety, power, environment, level, cfg)
  /\ UNCHANGED <<now, sensors, safety, power, environment, level,
                 mq7, mq2, ina12, ina5, bme, mpu, sm, fresh, buzz, disp, led,
                 cfg, enc>>

NextBegin == AlertSystemBegin \/ BeginStore \/ BeginCheck

SpecBegin == InitBegin /\ [][NextBegin]_vars

----------------------------------------------------------------------------
(* SpecLoopBuzzer: the control loop of Spec with the buzzer: sampling,     *)
(* evaluation, then AlertSystem::updateBuzzer, then the next iteration.    *)

(* AlertSystem::updateBuzzer in the loop *)
LoopUpdateBuzzer ==
  /\ pc = "done"
  /\ asys' = updateBuzzer(asys, sensors.buzzer, alerts.buzzerActive, now)
  /\ pc' = "buzzed"
  /\ UNCHANGED <<now, sensors, mode, safety, power, environment, level,
                 alerts, mq7, mq2, ina12, ina5, bme, mpu, sm, raised, fresh,
                 buzz, disp, led, cfg, enc>>

(* loop() returns and is entered again, millis() having advanced *)
LoopBuzzerTick ==
  /\ pc = "buzzed"
  /\ \E dt \in DtSet : now + dt <= MaxLoopTime /\ now' = now + dt
  /\ pc' = "update"
  /\ UNCHANGED <<sensors, mode, safety, power, environment, level, alerts,
                 mq7, mq2, ina12, ina5, bme, mpu, sm, asys, raised, fresh,
                 buzz, disp, led, cfg, enc>>

NextLoopBuzzer ==
  SensorManagerUpdate \/ CheckAlerts \/ LoopUpdateBuzzer \/ LoopBuzzerTick

SpecLoopBuzzer == Init /\ [][NextLoopBuzzer]_vars

----------------------------------------------------------------------------
(* SpecGpl: the MQ2 path alone, SensorManager::update (updatePreheat and   *)
(* updateMQ2) then checkAlerts, over the ADC range including full scale.   *)

MaxGplTime == 300000      \* SpecGpl: the clock stops advancing here

(* analogRead(PIN_MQ2): no signal, clean air, the two highest readings *)
GplRawInputs == {0, 1000, 1022, 1023}

GplDtSet == {30000, 60000}

(* SensorManager::update, the MQ2 part *)
GplUpdate ==
  /\ pc = "update"
  /\ \E raw \in GplRawInputs :
       LET r == updatePreheat([sm |-> sm, safety |-> safety, mode |-> mode],
                              now)
           u == updateMQ2(r.safety, mq2, sensors.mq2, now, raw)
       IN /\ sm' = r.sm
          /\ mode' = r.mode
          /\ safety' = u.safety
          /\ mq2' = u.mq2
          /\ fresh' = {n \in {"mq2"} : u.ret}
  /\ pc' = "check"
  /\ UNCHANGED <<now, sensors, power, environment, level, alerts, mq7,
                 ina12, ina5, bme, mpu, asys, raised, buzz, disp, led, cfg, enc>>

(* loop() returns and is entered again, millis() having advanced *)
GplTick ==
  /\ pc = "done"
  /\ \E dt \in GplDtSet : now + dt <= MaxGplTime /\ now' = now + dt
  /\ pc' = "update"
  /\ UNCHANGED <<sensors, mode, safety, power, environment, level, alerts,
                 mq7, mq2, ina12, ina5, bme, mpu, sm, asys, raised, fresh,
                 buzz, disp, led, cfg, enc>>

NextGpl == GplUpdate \/ CheckAlerts \/ GplTick

SpecGpl == Init /\ [][NextGpl]_vars

----------------------------------------------------------------------------
(* SpecMQ7Poll: the MQ7 sensor object polled from loop() "aussi souvent    *)
(* que possible": update() is called in every iteration, iterations being  *)
(* closer together than the sample interval or far apart.                  *)

MaxPollTime == 340000     \* SpecMQ7Poll: the clock stops advancing here

PollDtSet == {500, 30000}

InitPoll ==
  /\ InitObjects(FALSE, FALSE, FALSE, FALSE)
  /\ mode = "MODE_PREHEAT"
  /\ safety = InitSafety
  /\ power = InitPower
  /\ environment = InitEnvironment
  /\ level = InitLevel
  /\ pc = "update"

(* MQ7Sensor::update *)
MQ7Poll ==
  /\ pc = "update"
  /\ \E raw \in MQ7RawInputs :
       LET u == MQ7_update(mq7, now, raw)
       IN /\ mq7' = u.s
          /\ fresh' = {n \in {"mq7"} : u.ret}
  /\ pc' = "done"
  /\ UNCHANGED <<now, sensors, mode, safety, power, environment, level,
                 alerts, mq2, ina12, ina5, bme, mpu, sm, asys, raised, buzz,
                 disp, led, cfg, enc>>

(* loop() returns and is entered again, millis() having advanced *)
MQ7PollTick ==
  /\ pc = "done"
  /\ \E dt \in PollDtSet : now + dt <= MaxPollTime /\ now' = now + dt
  /\ pc' = "update"
  /\ UNCHANGED <<sensors, mode, safety, power, environment, level, alerts,
                 mq7, mq2, ina12, ina5, bme, mpu, sm, asys, raised, fresh,
                 buzz, disp, led, cfg, enc>>

NextMQ7Poll == MQ7Poll \/ MQ7PollTick

SpecMQ7Poll == InitPoll /\ [][NextMQ7Poll]_vars

----------------------------------------------------------------------------
(* SpecGasPoll: the two gas sensors as SensorManager::begin() builds them, *)
(* SensorManager::update() (updatePreheat, updateMQ7, updateMQ2) called    *)
(* from loop() at intervals shorter than INTERVAL_MQ7 / INTERVAL_MQ2.      *)

MaxGasPollTime == 8000    \* SpecGasPoll: the clock stops advancing here

GasPollDts == {500, 1000}

GasPollRaw == {0, 1022}   \* analogRead(PIN_MQ7), analogRead(PIN_MQ2)

(* SensorManager::update, the gas part *)
GasPoll ==
  /\ pc = "update"
  /\ \E raw7 \in GasPollRaw, raw2 \in GasPollRaw :
       LET ph == updatePreheat([sm |-> sm, safety |-> safety, mode |-> mode],
                               now)
           u7 == updateMQ7(ph.safety, mq7, sensors.mq7, now, raw7)
           u2 == updateMQ2(u7.safety, mq2, sensors.mq2, now, raw2)
       IN /\ sm' = ph.sm
          /\ mode' = ph.mode
          /\ mq7' = u7.mq7
          /\ mq2' = u2.mq2
          /\ safety' = u2.safety
          /\ fresh' = {n \in {"mq7"} : u7.ret} \cup {n \in {"mq2"} : u2.ret}
  /\ pc' = "done"
  /\ UNCHANGED <<now, sensors, power, environment, level, alerts, ina12,
                 ina5, bme, mpu, asys, raised, buzz, disp, led, cfg, enc>>

(* loop() returns and is entered again, millis() having advanced *)
GasPollTick ==
  /\ pc = "done"
  /\ \E dt \in GasPollDts : now + dt <= MaxGasPollTime /\ now' = now + dt
  /\ pc' = "update"
  /\ UNCHANGED <<sensors, mode, safety, power, environment, level, alerts,
                 mq7, mq2, ina12, ina5, bme, mpu, sm, asys, raised, fresh,
                 buzz, disp, led, cfg, enc>>

NextGasPoll == GasPoll \/ GasPollTick

SpecGasPoll == InitPoll /\ [][NextGasPoll]_vars

----------------------------------------------------------------------------
(* SpecAlertScreen: checkAlerts() over injected snapshots, then the LCD    *)
(* refresh while navigation is blocked.                                    *)

(* DisplayManager::showAlertScreen: the title line carries currentLevel,   *)
(* the lines below it the message (one literal per rule, named here by the *)
(* record's type), the value and the level of alerts[0]                    *)
showAlertScreen(a) ==
  IF a.activeAlertCount > 0
    THEN [screen |-> "ALERT", title |-> a.currentLevel,
          message |-> a.alerts[0].type, value |-> a.alerts[0].value,
          level |-> a.alerts[0].level]
    ELSE [screen |-> "ALERT", title |-> a.currentLevel,
          message |-> "NONE", value |-> 0, level |-> NONE]

(* DisplayManager::refreshScreen taking its blockNavigation branch *)
AlertScreenRefresh ==
  /\ pc = "done"
  /\ sensors.lcd
  /\ mode # "MODE_PREHEAT"
  /\ alerts.blockNavigation
  /\ disp' = [disp EXCEPT !.lcd = showAlertScreen(alerts),
                          !.refreshed = TRUE]
  /\ pc' = "shown"
  /\ UNCHANGED <<now, sensors, mode, safety, power, environment, level,
                 alerts, mq7, mq2, ina12, ina5, bme, mpu, sm, asys, raised,
                 fresh, buzz, led, cfg, enc>>

NextAlertScreen == InjectSnapshot \/ CheckAlerts \/ AlertScreenRefresh

SpecAlertScreen == InitEval /\ [][NextAlertScreen]_vars

----------------------------------------------------------------------------
(* SpecEncoder: the user presses and releases the encoder button while     *)
(* loop() calls DisplayManager::update(), which calls encoder->update()    *)
(* and takes the pending event with getButtonEvent().                      *)

MaxEncoderTime == 3000    \* SpecEncoder: the clock stops advancing here

EncoderDts == {100, 500}

(* DisplayManager::update: encoder->update() reads the pin, handleEncoder  *)
(* consumes the event *)
EncoderLoop ==
  /\ pc = "update"
  /\ LET u == KY040_update(enc, now, enc.pin)
         r == DisplayManager_update(
                [mode |-> mode, alerts |-> alerts, safety |-> safety,
                 sensors |-> sensors, disp |-> disp], "NONE", u.event, now)
     IN /\ enc' = [u.e EXCEPT !.longEvents =
                                 IF u.event = "LONG_PRESS" THEN @ + 1 ELSE @]
        /\ mode' = r.mode
        /\ alerts' = r.alerts
        /\ disp' = r.disp
  /\ pc' = "done"
  /\ UNCHANGED <<now, sensors, safety, power, environment, level,
                 mq7, mq2, ina12, ina5, bme, mpu, sm, asys, raised, fresh,
                 buzz, led, cfg>>

(* loop() returns and is entered again, millis() having advanced; the      *)
(* user has pressed, released or left the button meanwhile                 *)
EncoderTick ==
  /\ pc = "done"
  /\ \E dt \in EncoderDts, p \in BOOLEAN :
       /\ now + dt <= MaxEncoderTime
       /\ now' = now + dt
       /\ enc' = IF p = enc.pin THEN enc
                 ELSE IF p
                   THEN [enc EXCEPT !.pin = TRUE, !.pressedAt = now + dt,
                                    !.held = 0, !.longEvents = 0,
                                    !.modeAtPress = mode]
                   ELSE [enc EXCEPT !.pin = FALSE,
                                    !.held = now + dt - enc.pressedAt]
  /\ pc' = "update"
  /\ UNCHANGED <<sensors, mode, safety, power, environment, level, alerts,
                 mq7, mq2, ina12, ina5, bme, mpu, sm, asys, raised, fresh,
                 buzz, disp, led, cfg>>

NextEncoder == EncoderLoop \/ EncoderTick

SpecEncoder == InitPoll /\ [][NextEncoder]_vars

----------------------------------------------------------------------------
(* Properties                                                              *)

Slots == 0..(AlertCapacity - 1)

(* slots holding an active record of the given type *)
ActiveOf(type) ==
  {i \in Slots : alerts.alerts[i].active /\ alerts.alerts[i].type = type}

(* exactly one active record of that type, and it has that level *)
OneRecord(type, lvl) ==
  /\ Cardinality(ActiveOf(type)) = 1
  /\ \A i \in ActiveOf(type) : alerts.alerts[i].level = lvl

RECURSIVE MaxLevel(_)
(* highest level among a sequence of addAlert() calls, NONE if empty *)
MaxLevel(calls) ==
  IF calls = <<>> THEN NONE
  ELSE LET m == MaxLevel(Tail(calls))
       IN IF Head(calls).level > m THEN Head(calls).level ELSE m

(* highest level among the active records of the buffer, NONE if none *)
MaxActiveLevel ==
  LET ls == {NONE} \cup {alerts.alerts[i].level :
                           i \in {j \in Slots : alerts.alerts[j].active}}
  IN CHOOSE m \in ls : \A x \in ls : x <= m

(* heating phase of an MQ7 sensor object *)
Phase(s) ==
  IF s.status = "PREHEATING" THEN "Preheating"
  ELSE IF s.isLowPhase THEN "LowPhase" ELSE "HighPhase"

(* C1: after every completed checkAlerts() cycle, blockNavigation is true  *)
(* exactly when currentLevel is DANGER or CRITICAL.                        *)
C1_BlockNavigation ==
  pc = "done" =>
    (alerts.blockNavigation <=> alerts.currentLevel \in {DANGER, CRITICAL})

(* a cycle has ended at DANGER with navigation blocked *)
C1_Witness ==
  pc = "done" /\ alerts.currentLevel = DANGER /\ alerts.blockNavigation

(* C2: after every completed checkAlerts() cycle, currentLevel equals the  *)
(* highest level among the records raised during that cycle, i.e. among    *)
(* the active records of the buffer, and NONE when none was raised.        *)
C2_CurrentLevelIsMax ==
  pc = "done" =>
    /\ alerts.currentLevel = MaxLevel(raised)
    /\ alerts.currentLevel = MaxActiveLevel

(* a cycle raised several records and the last one was not the highest *)
C2_Witness ==
  /\ pc = "done"
  /\ Len(raised) >= 2
  /\ alerts.currentLevel = CRITICAL
  /\ raised[Len(raised)].level < CRITICAL

(* C3: whenever the 12V INA226 samples a bus voltage below VOLTAGE_12V_MIN *)
(* that is within the physical validity range, then after update() and     *)
(* checkAlerts() of the same loop iteration a VOLTAGE_12V_LOW record of     *)
(* level DANGER is active.                                                 *)
C3_LowBatteryRaisesDanger ==
  (/\ pc = "done"
   /\ "ina226_12v" \in fresh
   /\ ina12.busVoltage < VOLTAGE_12V_MIN
   /\ isValidVoltage(ina12.busVoltage))
  => \E i \in ActiveOf("VOLTAGE_12V_LOW") : alerts.alerts[i].level = DANGER

(* C4: a CO value sampled while the MQ7 is in HighPhase never produces a   *)
(* CO_HIGH record, while a value above the INFO threshold sampled in       *)
(* LowPhase produces one.                                                  *)
C4_HighPhaseSampleRaisesNoAlert ==
  (pc = "done" /\ "mq7" \in fresh) =>
    /\ Phase(mq7) = "HighPhase" => ActiveOf("CO_HIGH") = {}
    /\ (Phase(mq7) = "LowPhase" /\ mq7.ppm > CO_THRESHOLD_INFO)
         => ActiveOf("CO_HIGH") # {}

COEvaluated ==
  pc = "done" /\ safety.mq7Preheated /\ safety.mq2Preheated /\ safety.coValid

(* C6 as stated: with the gas checks running on a valid reading, CO values *)
(* of 50, 250 and 450 ppm yield exactly one CO_HIGH record each, of level  *)
(* INFO, WARNING and CRITICAL.                                             *)
C6_Original ==
  COEvaluated =>
    /\ safety.coPPM = 50  => OneRecord("CO_HIGH", INFO)
    /\ safety.coPPM = 250 => OneRecord("CO_HIGH", WARNING)
    /\ safety.coPPM = 450 => OneRecord("CO_HIGH", CRITICAL)

(* C6 amended: CO values of 51, 250 and 450 ppm yield exactly one CO_HIGH  *)
(* record each, of level INFO, WARNING and CRITICAL; a value of exactly    *)
(* 50 ppm yields no CO_HIGH record (the comparisons are strict).           *)
C6_Amended ==
  COEvaluated =>
    /\ safety.coPPM = 50  => ActiveOf("CO_HIGH") = {}
    /\ safety.coPPM = 51  => OneRecord("CO_HIGH", INFO)
    /\ safety.coPPM = 250 => OneRecord("CO_HIGH", WARNING)
    /\ safety.coPPM = 450 => OneRecord("CO_HIGH", CRITICAL)

(* a cycle evaluated 51 ppm and raised the INFO record *)
C6_Witness ==
  COEvaluated /\ safety.coPPM = 51 /\ OneRecord("CO_HIGH", INFO)

(* C7: after 12 addAlert() calls following one reset, activeAlertCount is  *)
(* 10 and currentLevel is the highest level among all 12 calls.            *)
C7_TwelveCalls ==
  Len(raised) = 12 =>
    /\ alerts.activeAlertCount = 10
    /\ alerts.currentLevel = MaxLevel(raised)

(* C8: activeAlertCount never exceeds 10, and after every completed cycle  *)
(* the active records are exactly the slots below activeAlertCount.        *)
C8_BoundedBuffer ==
  /\ alerts.activeAlertCount <= AlertCapacity
  /\ pc = "done" =>
       \A i \in Slots : alerts.alerts[i].active <=> i < alerts.activeAlertCount

(* a cycle that filled the buffer was followed by one raising one record:  *)
(* the last slot still holds the old record, inactive                      *)
C8_Witness ==
  /\ pc = "done"
  /\ alerts.activeAlertCount = 1
  /\ alerts.alerts[AlertCapacity - 1].type # "NONE"
  /\ ~alerts.alerts[AlertCapacity - 1].active

(* C9: an addAlert() call made while activeAlertCount is 10 changes        *)
(* nothing: no record, no level, no count, no flag, no mode.               *)
C9_FullBufferDropsCall ==
  [][(alerts.activeAlertCount = AlertCapacity /\ raised' # raised)
       => UNCHANGED <<alerts, asys, mode, sensors, safety, power,
                      environment, level, sm>>]_vars

(* a call of a higher level than currentLevel was made on a full buffer *)
C9_Witness ==
  /\ alerts.activeAlertCount = AlertCapacity
  /\ Len(raised) > AlertCapacity
  /\ raised[Len(raised)].level > alerts.currentLevel

(* C10: the MQ7 phase changes only Preheating -> HighPhase, HighPhase ->   *)
(* LowPhase and LowPhase -> HighPhase, and only when the time since the    *)
(* start of the phase being left has reached that phase's duration.        *)
C10_PhaseOrder ==
  [][Phase(mq7') # Phase(mq7) =>
       \/ /\ Phase(mq7) = "Preheating" /\ Phase(mq7') = "HighPhase"
          /\ now - mq7.initTime >= MQ7_PREHEAT_TIME
       \/ /\ Phase(mq7) = "HighPhase" /\ Phase(mq7') = "LowPhase"
          /\ now - mq7.phaseStartTime >= MQ7_HIGH_PHASE_TIME
       \/ /\ Phase(mq7) = "LowPhase" /\ Phase(mq7') = "HighPhase"
          /\ now - mq7.phaseStartTime >= MQ7_LOW_PHASE_TIME]_vars

(* the sensor is in HighPhase for the second time, after a LowPhase *)
C10_Witness ==
  /\ Phase(mq7) = "HighPhase"
  /\ mq7.phaseStartTime >=
       MQ7_PREHEAT_TIME + MQ7_HIGH_PHASE_TIME + MQ7_LOW_PHASE_TIME

(* C11: a failed MQ7 read does not touch the heating-phase timing: after    *)
(* every update() the phase, phaseStartTime and initTime are those that    *)
(* updateHeatingPhase() alone produces, whatever the read returned, and a  *)
(* due read that fails changes nothing but the sample time and the         *)
(* validity flag, which is cleared.                                        *)
C11_FailedReadKeepsPhaseTiming ==
  [][now' = now =>
       LET h == updateHeatingPhase(mq7, now)
       IN /\ Phase(mq7') = Phase(h)
          /\ mq7'.phaseStartTime = h.phaseStartTime
          /\ mq7'.initTime = h.initTime
          /\ (now - h.lastSample >= h.sampleInterval /\ "mq7" \notin fresh')
               => mq7' = [h EXCEPT !.lastSample = now, !.valid = FALSE]]_vars

(* a read has just failed in LowPhase, part-way through the phase *)
C11_Witness ==
  /\ Phase(mq7) = "LowPhase"
  /\ mq7.lastSample = now
  /\ "mq7" \notin fresh
  /\ ~mq7.valid
  /\ now > mq7.phaseStartTime

(* the scheduling rule of one slot over one SensorManager::update(): the   *)
(* provider is sampled, its sample time becoming now, exactly when         *)
(* now - lastSampleTime >= interval; otherwise its sample time stays       *)
SlotRule(last, interval, lastAfter) ==
  IF now - last >= interval THEN lastAfter = now ELSE lastAfter = last

(* C12: for every sensor slot, SensorManager::update() at time now samples *)
(* the provider if and only if now - lastSampleTime >= interval, and the   *)
(* sample time then becomes exactly now.                                   *)
C12_SampledIffDue ==
  [][(pc = "update" /\ pc' = "check") =>
       /\ SlotRule(mq7.lastSample, mq7.sampleInterval, mq7'.lastSample)
       /\ SlotRule(mq2.lastSample, mq2.sampleInterval, mq2'.lastSample)
       /\ sensors.ina226_12v =>
            SlotRule(ina12.lastUpdate, ina12.updateInterval, ina12'.lastUpdate)
       /\ sensors.ina226_5v =>
            SlotRule(ina5.lastUpdate, ina5.updateInterval, ina5'.lastUpdate)
       /\ sensors.bme280 =>
            SlotRule(bme.lastUpdate, bme.sampleInterval, bme'.lastUpdate)]_vars

(* the same rule for the MQ7, MQ2 and INA226 slots alone *)
SlotRuleGasAndPower ==
  [][(pc = "update" /\ pc' = "check") =>
       /\ SlotRule(mq7.lastSample, mq7.sampleInterval, mq7'.lastSample)
       /\ SlotRule(mq2.lastSample, mq2.sampleInterval, mq2'.lastSample)
       /\ sensors.ina226_12v =>
            SlotRule(ina12.lastUpdate, ina12.updateInterval, ina12'.lastUpdate)
       /\ sensors.ina226_5v =>
            SlotRule(ina5.lastUpdate, ina5.updateInterval, ina5'.lastUpdate)]_vars

C14_FailedReadClearsValidity ==
  (pc = "check" /\ now > 0) =>
    /\ (mq7.lastSample = now /\ "mq7" \notin fresh) => ~safety.coValid
    /\ (mq2.lastSample = now /\ "mq2" \notin fresh) =>
         ~safety.gplValid /\ ~safety.smokeValid
    /\ (bme.lastUpdate = now /\ "bme280" \notin fresh) =>
         ~environment.tempIntValid /\ ~environment.humidityValid

(* C15: each gas is gated by its own sensor's preheat: once the preheat of *)
(* the sensor providing a gas has elapsed and the stored reading is valid  *)
(* and above the INFO threshold, the cycle raises the record of that gas,  *)
(* whatever the other gas sensor's preheat flag is.                        *)
C15_GasGatedByOwnPreheat ==
  pc = "done" =>
    /\ (safety.mq2Preheated /\ safety.smokeValid
          /\ safety.smokePPM > SMOKE_THRESHOLD_INFO)
         => ActiveOf("SMOKE_HIGH") # {}
    /\ (safety.mq2Preheated /\ safety.gplValid
          /\ safety.gplPPM > GPL_THRESHOLD_INFO)
         => ActiveOf("GPL_HIGH") # {}
    /\ (safety.mq7Preheated /\ safety.coValid
          /\ safety.coPPM > CO_THRESHOLD_INFO)
         => ActiveOf("CO_HIGH") # {}

(* position of an alert type in the evaluation order: CO, GPL, smoke,      *)
(* then power, then environment, then tilt                                 *)
CategoryRank(type) ==
  CASE type = "CO_HIGH"    -> 1
    [] type = "GPL_HIGH"   -> 2
    [] type = "SMOKE_HIGH" -> 3
    [] type \in {"VOLTAGE_12V_LOW", "VOLTAGE_12V_HIGH", "VOLTAGE_5V_LOW",
                 "VOLTAGE_5V_HIGH", "CURRENT_12V_HIGH", "CURRENT_5V_HIGH"} -> 4
    [] type \in {"TEMP_HIGH", "TEMP_LOW", "HUMIDITY_HIGH"} -> 5
    [] type = "TILT_HIGH"  -> 6
    [] OTHER               -> 0

(* C16: after a cycle the records sit in the buffer in the order they were *)
(* raised, which is gas (CO, GPL, smoke), power, environment, tilt, and    *)
(* primaryAlert is the type of the earliest record whose level equals      *)
(* currentLevel (NONE when there is no record).                            *)
C16_OrderAndPrimary ==
  pc = "done" =>
    /\ alerts.activeAlertCount = Len(raised)
    /\ \A i \in Slots : i < alerts.activeAlertCount =>
         /\ alerts.alerts[i].type = raised[i + 1].type
         /\ alerts.alerts[i].level = raised[i + 1].level
    /\ \A i, j \in Slots :
         (i < j /\ j < alerts.activeAlertCount) =>
           CategoryRank(alerts.alerts[i].type)
             <= CategoryRank(alerts.alerts[j].type)
    /\ IF alerts.activeAlertCount = 0
         THEN alerts.primaryAlert = "NONE"
         ELSE LET top == {i \in Slots : /\ i < alerts.activeAlertCount
                                        /\ alerts.alerts[i].level
                                             = alerts.currentLevel}
                  first == CHOOSE i \in top : \A k \in top : i <= k
              IN top # {} /\ alerts.primaryAlert = alerts.alerts[first].type

(* two records of different types tie at the highest level *)
C16_Witness ==
  /\ pc = "done"
  /\ \E i, j \in Slots :
       /\ i < j /\ j < alerts.activeAlertCount
       /\ alerts.alerts[i].level = alerts.currentLevel
       /\ alerts.alerts[j].level = alerts.currentLevel
       /\ alerts.alerts[i].type # alerts.alerts[j].type
       /\ alerts.primaryAlert = alerts.alerts[i].type

(* the thresholds of an alert type with the level each one stands for *)
Ladder(type) ==
  CASE type = "CO_HIGH" ->
         {<<CO_THRESHOLD_INFO, INFO>>, <<CO_THRESHOLD_WARNING, WARNING>>,
          <<CO_THRESHOLD_DANGER, CRITICAL>>}
    [] type = "GPL_HIGH" ->
         {<<GPL_THRESHOLD_INFO, INFO>>, <<GPL_THRESHOLD_WARNING, WARNING>>,
          <<GPL_THRESHOLD_DANGER, CRITICAL>>}
    [] type = "SMOKE_HIGH" ->
         {<<SMOKE_THRESHOLD_INFO, INFO>>, <<SMOKE_THRESHOLD_WARNING, WARNING>>,
          <<SMOKE_THRESHOLD_DANGER, DANGER>>}
    [] type = "VOLTAGE_12V_LOW" ->
         {<<VOLTAGE_12V_WARNING, WARNING>>, <<VOLTAGE_12V_MIN, DANGER>>}
    [] type = "VOLTAGE_12V_HIGH" -> {<<VOLTAGE_12V_MAX, WARNING>>}
    [] type = "VOLTAGE_5V_LOW"   -> {<<VOLTAGE_5V_MIN, DANGER>>}
    [] type = "VOLTAGE_5V_HIGH"  -> {<<VOLTAGE_5V_MAX, WARNING>>}
    [] type = "CURRENT_12V_HIGH" -> {<<CURRENT_12V_MAX, WARNING>>}
    [] type = "CURRENT_5V_HIGH"  -> {<<CURRENT_5V_MAX, WARNING>>}
    [] type = "TEMP_HIGH"        -> {<<TEMP_WARNING, WARNING>>}
    [] type = "TEMP_LOW"         -> {<<0, WARNING>>}
    [] type = "HUMIDITY_HIGH"    -> {<<HUMIDITY_WARNING, INFO>>}
    [] type = "TILT_HIGH"        -> {<<TILT_WARNING, WARNING>>}
    [] OTHER                     -> {}

(* types whose thresholds are crossed from above *)
LowTypes == {"VOLTAGE_12V_LOW", "VOLTAGE_5V_LOW", "TEMP_LOW"}

(* the steps of a type's ladder that the value crosses *)
Crossed(type, value) ==
  {st \in Ladder(type) :
     IF type \in LowTypes THEN value < st[1] ELSE value > st[1]}

(* C17: after a cycle no two active records have the same type, and the    *)
(* record of a type carries the most severe level among the thresholds     *)
(* its value crosses, with that threshold.                                 *)
C17_OneRecordPerTypeMostSevere ==
  pc = "done" =>
    /\ \A i, j \in Slots :
         (alerts.alerts[i].active /\ alerts.alerts[j].active /\ i # j)
           => alerts.alerts[i].type # alerts.alerts[j].type
    /\ \A i \in Slots : alerts.alerts[i].active =>
         LET r  == alerts.alerts[i]
             cr == Crossed(r.type, r.value)
         IN /\ <<r.threshold, r.level>> \in cr
            /\ \A st \in cr : st[2] <= r.level

(* a value crossing all three thresholds of its type was evaluated, with   *)
(* another one crossing both of its own                                    *)
C17_Witness ==
  /\ pc = "done"
  /\ OneRecord("CO_HIGH", CRITICAL)
  /\ OneRecord("VOLTAGE_12V_LOW", WARNING)
  /\ \E i \in ActiveOf("CO_HIGH") :
       Cardinality(Crossed("CO_HIGH", alerts.alerts[i].value)) = 3

(* C18: after every cycle buzzerActive is true exactly when currentLevel   *)
(* is WARNING or above, and the cadence interval is 0 (continuous) at      *)
(* CRITICAL, 200 ms at DANGER and 1000 ms at WARNING.                      *)
C18_ActuationFollowsLevel ==
  pc = "done" =>
    /\ alerts.buzzerActive <=> alerts.currentLevel >= WARNING
    /\ alerts.currentLevel = CRITICAL => asys.buzzerInterval = 0
    /\ alerts.currentLevel = DANGER   => asys.buzzerInterval = 200
    /\ alerts.currentLevel = WARNING  => asys.buzzerInterval = 1000

(* a WARNING cycle has followed a cycle of another cadence: the interval   *)
(* is 1000 ms again although the mode set by the earlier cycle remains     *)
C18_Witness ==
  /\ pc = "done"
  /\ alerts.currentLevel = WARNING
  /\ alerts.buzzerActive
  /\ asys.buzzerInterval = 1000
  /\ mode = "MODE_ALERT"


(* elapsed time and cadence of the current constant-severity period *)
Elapsed == now - buzz.since

BuzzerCalled == pc = "done" /\ buzz.epoch >= 1 /\ buzz.calls >= 1

(* C19: while the severity stays constant and updateBuzzer() runs every    *)
(* loop iteration, the buzzer is on without toggling at CRITICAL, has      *)
(* toggled elapsed/200 times at DANGER and elapsed/1000 times at WARNING,  *)
(* and is off without toggling at NONE and INFO.  The count is read with   *)
(* a tolerance of one toggle, and the switch into the steady state at the  *)
(* first call is not counted against "never toggles".                      *)
C19_CadenceExact ==
  BuzzerCalled =>
    /\ alerts.currentLevel = CRITICAL =>
          asys.buzzerState /\ buzz.toggles <= 1
    /\ alerts.currentLevel = DANGER =>
          /\ buzz.toggles <= Elapsed \div 200 + 1
          /\ buzz.toggles >= Elapsed \div 200 - 1
    /\ alerts.currentLevel = WARNING =>
          /\ buzz.toggles <= Elapsed \div 1000 + 1
          /\ buzz.toggles >= Elapsed \div 1000 - 1
    /\ alerts.currentLevel \in {NONE, INFO} =>
          ~asys.buzzerState /\ buzz.toggles <= 1

(* what updateBuzzer() does guarantee at DANGER and WARNING: after a call  *)
(* the last toggle is less than one interval old, and toggles never come   *)
(* faster than the interval                                                *)
BuzzerToggleDue ==
  (BuzzerCalled /\ alerts.currentLevel \in {WARNING, DANGER}) =>
    /\ now - asys.lastBuzzerToggle < asys.buzzerInterval
    /\ buzz.toggles <= Elapsed \div asys.buzzerInterval + 1

(* C20: silenceBuzzer() switches the buzzer off in the same step and       *)
(* leaves currentLevel, primaryAlert, the alert records, buzzerActive,     *)
(* blockNavigation and the mode as they were.  In SpecSilence the step of  *)
(* silenceBuzzer() is the one that changes neither the clock nor the       *)
(* period.                                                                 *)
C20_SilenceIsAudioOnly ==
  [][ (now' = now /\ buzz' = buzz) =>
        /\ ~asys'.buzzerState
        /\ alerts' = alerts
        /\ mode' = mode
        /\ asys'.buzzerInterval = asys.buzzerInterval
        /\ asys'.lastBuzzerToggle = asys.lastBuzzerToggle ]_vars

(* a silenced CRITICAL alarm: updateBuzzer() has run at CRITICAL, which    *)
(* leaves the buzzer on, and the buzzer is off with the alarm still up     *)
C20_Witness ==
  /\ BuzzerCalled /\ alerts.currentLevel = CRITICAL
  /\ ~asys.buzzerState
  /\ alerts.buzzerActive /\ alerts.blockNavigation
  /\ ActiveOf("CO_HIGH") # {}

(* the active records of a buffer, in slot order *)
RECURSIVE ActiveFrom(_, _)
ActiveFrom(a, i) ==
  IF i >= AlertCapacity THEN <<>>
  ELSE IF a.alerts[i].active
         THEN <<[type |-> a.alerts[i].type, level |-> a.alerts[i].level,
                 value |-> a.alerts[i].value,
                 threshold |-> a.alerts[i].threshold]>> \o ActiveFrom(a, i + 1)
         ELSE ActiveFrom(a, i + 1)

(* what the consumers of AlertState read *)
Visible(a) ==
  [records |-> ActiveFrom(a, 0), currentLevel |-> a.currentLevel,
   primaryAlert |-> a.primaryAlert, activeAlertCount |-> a.activeAlertCount,
   buzzerActive |-> a.buzzerActive, blockNavigation |-> a.blockNavigation]

(* C21: checkAlerts() run a second time on the unchanged snapshot leaves   *)
(* the active records (type, level, value, threshold, order) and           *)
(* currentLevel, primaryAlert, activeAlertCount, buzzerActive and          *)
(* blockNavigation as the first run left them.                             *)
C21_Idempotent ==
  [][(pc = "done" /\ pc' = "again") => Visible(alerts') = Visible(alerts)]_vars

(* a second run on a snapshot with several records *)
C21_Witness ==
  /\ pc = "again" /\ alerts.activeAlertCount >= 3
  /\ alerts.currentLevel = CRITICAL

(* the result of checkAlerts() on the current snapshot from the state      *)
(* AlertSystem::begin leaves                                               *)
FromScratch ==
  checkAlerts([alerts |-> InitAlertState, mode |-> "MODE_NORMAL",
               asys |-> asys], safety, power, environment, level).alerts

(* C22: what checkAlerts() leaves depends on the current snapshot only: it *)
(* equals the result of evaluating that snapshot with no earlier cycle,    *)
(* and a snapshot with no violation gives NONE, buzzer inactive and        *)
(* navigation free whatever the cycle before was.                          *)
C22_HistoryIndependent ==
  pc = "done" =>
    /\ Visible(alerts) = Visible(FromScratch)
    /\ raised = <<>> =>
          /\ alerts.currentLevel = NONE
          /\ ~alerts.buzzerActive
          /\ ~alerts.blockNavigation

(* a clean cycle right after a DANGER or CRITICAL one: the slots still     *)
(* hold that cycle's records, inactive                                     *)
C22_Witness ==
  /\ pc = "done" /\ raised = <<>> /\ alerts.currentLevel = NONE
  /\ \E i \in Slots : ~alerts.alerts[i].active
                       /\ alerts.alerts[i].level >= DANGER

(* a step of DisplayManager::update in SpecDisplay *)
DisplayStep == pc = "done" /\ pc' = "led"

(* C23: once the severity has dropped from DANGER/CRITICAL to WARNING or   *)
(* lower (the LCD still shows the alert screen, navigation is no longer    *)
(* blocked), the next refresh draws the operator's current screen, and a   *)
(* rotation of the encoder with the backlight on moves to the neighbour    *)
(* screen again (a long press handled in the same call changes the mode    *)
(* and chooses the screen itself).                                         *)
C23_UnblockedRefreshShowsCurrentScreen ==
  [][(DisplayStep /\ disp.lcd.screen = "ALERT" /\ ~alerts.blockNavigation) =>
       /\ disp'.refreshed => disp'.lcd.screen = disp'.currentScreen
       /\ (disp.backlightOn /\ mode' = mode) =>
            /\ disp'.rot = "CLOCKWISE" =>
                 disp'.currentScreen = nextScreen(disp.currentScreen)
            /\ disp'.rot = "COUNTER_CLOCKWISE" =>
                 disp'.currentScreen = previousScreen(disp.currentScreen)]_vars

(* a refresh at WARNING after a blocking alert (the mode is still          *)
(* MODE_ALERT), reached by a rotation                                      *)
C23_Witness ==
  /\ pc = "led" /\ disp.refreshed /\ disp.rot = "CLOCKWISE"
  /\ alerts.currentLevel = WARNING /\ mode = "MODE_ALERT"
  /\ disp.currentScreen = "SCREEN_ENVIRONMENT"
  /\ disp.lcd.screen = "SCREEN_ENVIRONMENT"

(* C24: while a gas sensor's preheat has not elapsed, the LCD does not     *)
(* show the safety view with the status "[OK]" for that gas.               *)
C24_NoSafeGasDuringPreheat ==
  /\ ~safety.mq7Preheated =>
       ~(disp.lcd.screen = "SCREEN_SAFETY" /\ disp.lcd.co = "[OK]")
  /\ ~safety.mq2Preheated =>
       ~(disp.lcd.screen = "SCREEN_SAFETY"
         /\ (disp.lcd.gpl = "[OK]" \/ disp.lcd.smoke = "[OK]"))

(* C25: while blockNavigation is set, DisplayManager::update() with any    *)
(* rotation and button event leaves currentScreen as it is and does not    *)
(* switch the mode to MODE_SETTINGS.                                       *)
C25_BlockedNavigation ==
  [][(DisplayStep /\ alerts.blockNavigation) =>
       /\ disp'.currentScreen = disp.currentScreen
       /\ mode' = "MODE_SETTINGS" => mode = "MODE_SETTINGS"]_vars

(* a rotation arrived while blocked, on a screen the operator had          *)
(* navigated to                                                            *)
C25_Witness ==
  /\ pc = "led" /\ alerts.blockNavigation /\ disp.rot = "CLOCKWISE"
  /\ disp.backlightOn /\ disp.currentScreen = "SCREEN_ENERGY"
  /\ disp.lastEncoderActivity = now /\ disp.lcd.screen = "ALERT"

(* C27: DisplayManager::update() with its handlers and                     *)
(* LEDManager::update() leave state.alerts as it is.                       *)
C27_ConsumersLeaveAlerts ==
  [][(DisplayStep \/ (pc = "led" /\ pc' = "tick")) => alerts' = alerts]_vars

(* both consumers have run on a blocking alert *)
C27_Witness ==
  /\ pc = "tick" /\ alerts.blockNavigation /\ alerts.activeAlertCount >= 1
  /\ disp.lcd.screen = "ALERT" /\ led.animation /\ led.lastUpdate = now

(* a ladder whose steps rise: info < warning < danger *)
WellOrdered(t) ==
  /\ t.coInfo < t.coWarning /\ t.coWarning < t.coDanger
  /\ t.gplInfo < t.gplWarning /\ t.gplWarning < t.gplDanger
  /\ t.smokeInfo < t.smokeWarning /\ t.smokeWarning < t.smokeDanger

(* the table of config.h gives the rules of checkGasAlerts *)
GasRulesAgree == checkGasAlertsWith(safety, ConfigTable) = checkGasAlerts(safety)

(* C26: a threshold table whose warning threshold is not below its danger  *)
(* threshold (or info not below warning) is rejected by begin(): the run   *)
(* loop is entered, and checkAlerts() evaluates, with well-ordered tables  *)
(* only.                                                                   *)
C26_MisconfiguredTableRejected ==
  (asys.initialized \/ pc \in {"update", "check", "done"}) => WellOrdered(cfg)

(* C28: SensorManager::update() and checkAlerts() leave the buzzer's       *)
(* cadence clock (lastBuzzerToggle) and its on/off state as they are; in   *)
(* the loop they change in updateBuzzer() only.                            *)
C28_BuzzerClockIndependent ==
  [][\/ (asys'.lastBuzzerToggle = asys.lastBuzzerToggle
         /\ asys'.buzzerState = asys.buzzerState)
     \/ (pc = "done" /\ pc' = "buzzed")]_vars

(* sampling and evaluation have run while the buzzer, switched on in an    *)
(* earlier iteration, is sounding                                          *)
C28_Witness ==
  /\ pc = "done" /\ asys.buzzerState /\ alerts.buzzerActive
  /\ asys.lastBuzzerToggle > 0 /\ asys.lastBuzzerToggle < now
  /\ fresh # {}

(* Rs/R0 in thousandths at 3000 ppm LPG on the sensor's own curve,         *)
(* Rs/R0 = 2.5 * ppm^(-0.48): 2.5 * 3000^(-0.48) = 0.0536                  *)
LPG_DANGER_RATIO_MILLI == 53

(* the reading just sampled says more than GPL_THRESHOLD_DANGER: by the    *)
(* value readSensor() reports, or by the resistance ratio it measured      *)
LpgAboveDanger ==
  /\ mq2.lastSample = now /\ "mq2" \in fresh
  /\ \/ mq2.lpg > GPL_THRESHOLD_DANGER
     \/ ratioMilli(mq2.rawValue, mq2.rl, MQ2_R0_TENTHS)
          <= LPG_DANGER_RATIO_MILLI

C30_FailedReadIsRetried ==
  [][(pc = "update" /\ pc' = "check" /\ sensors.bme280
      /\ bme.status = "ERROR_COMM"
      /\ now - bme.lastUpdate >= bme.sampleInterval)
       => bme'.lastUpdate = now]_vars

(* C31: the valid flag of the stored MQ7 reading is set only while the     *)
(* sensor is in the low heating phase: currentData.valid => isLowPhase.    *)
C31_ValidOnlyInLowPhase == mq7.valid => mq7.isLowPhase

(* fixed duration of a heating phase *)
PhaseDuration(ph) ==
  CASE ph = "Preheating" -> MQ7_PREHEAT_TIME
    [] ph = "HighPhase"  -> MQ7_HIGH_PHASE_TIME
    [] ph = "LowPhase"   -> MQ7_LOW_PHASE_TIME

(* C32: each MQ7 phase lasts at least its fixed duration: the time the     *)
(* phase was entered (begin() for Preheating) is kept while the phase      *)
(* lasts, and an update() leaves the phase only when at least the phase's  *)
(* duration has passed since then, whatever the spacing of the calls.      *)
C32_PhaseLastsItsDuration ==
  [][/\ Phase(mq7') = Phase(mq7) =>
          /\ mq7'.phaseStartTime = mq7.phaseStartTime
          /\ mq7'.initTime = mq7.initTime
     /\ Phase(mq7') # Phase(mq7) =>
          /\ now - mq7.phaseStartTime >= PhaseDuration(Phase(mq7))
          /\ mq7'.phaseStartTime = now]_vars

(* a LowPhase has just ended, in an update() called late *)
C32_Witness ==
  /\ Phase(mq7) = "HighPhase"
  /\ mq7.phaseStartTime = now
  /\ now > MQ7_PREHEAT_TIME + MQ7_HIGH_PHASE_TIME + MQ7_LOW_PHASE_TIME

(* C33: the gas preheat gate is one-shot.  mq2Preheated, mq7Preheated and  *)
(* preheatComplete never go back to false; once SensorManager::update()    *)
(* has run at time now, each flag is true exactly when its preheat         *)
(* duration has passed since preheatStartTime; preheatComplete is true     *)
(* exactly when both flags are, and the update() that sets it puts the     *)
(* system in MODE_NORMAL.                                                  *)
C33_PreheatGateOneShot ==
  [][/\ safety.mq2Preheated => safety'.mq2Preheated
     /\ safety.mq7Preheated => safety'.mq7Preheated
     /\ sm.preheatComplete => sm'.preheatComplete
     /\ pc' \in {"check", "done"} =>
          /\ safety'.mq2Preheated <=>
               now' - sm'.preheatStartTime >= PREHEAT_MQ2_TIME
          /\ safety'.mq7Preheated <=>
               now' - sm'.preheatStartTime >= PREHEAT_MQ7_TIME
     /\ sm'.preheatComplete <=>
          (safety'.mq2Preheated /\ safety'.mq7Preheated)
     /\ (~sm.preheatComplete /\ sm'.preheatComplete) =>
          mode' = "MODE_NORMAL"]_vars

(* the update() that completes the preheat has just run, the MQ2 gate      *)
(* having opened in an earlier one                                         *)
C33_Witness ==
  /\ pc = "check"
  /\ sm.preheatComplete
  /\ now - sm.preheatStartTime = PREHEAT_MQ7_TIME
  /\ mode = "MODE_NORMAL"

(* C34: the MQ7 and the MQ2 built by SensorManager::begin() take a sample  *)
(* at most once per INTERVAL_MQ7 / INTERVAL_MQ2: a sample that follows an  *)
(* earlier one comes at least that long after it.                          *)
C34_GasSamplesSpaced ==
  [][/\ (mq7.lastSample > 0 /\ mq7'.lastSample # mq7.lastSample) =>
          mq7'.lastSample - mq7.lastSample >= INTERVAL_MQ7
     /\ (mq2.lastSample > 0 /\ mq2'.lastSample # mq2.lastSample) =>
          mq2'.lastSample - mq2.lastSample >= INTERVAL_MQ2]_vars

(* C35: the blocking alert screen shows the message, value and level of    *)
(* the primary alert: of a record whose type is primaryAlert and whose     *)
(* level is currentLevel.                                                  *)
C35_AlertScreenShowsPrimary ==
  (pc = "shown" /\ alerts.activeAlertCount > 0) =>
    /\ disp.lcd.message = alerts.primaryAlert
    /\ disp.lcd.level = alerts.currentLevel
    /\ \E i \in Slots :
         /\ i < alerts.activeAlertCount
         /\ alerts.alerts[i].type = alerts.primaryAlert
         /\ alerts.alerts[i].level = alerts.currentLevel
         /\ alerts.alerts[i].value = disp.lcd.value

(* C36: after every checkAlerts() cycle the system is in MODE_ALERT        *)
(* exactly when currentLevel is DANGER or CRITICAL, whatever the cycles    *)
(* before it were.                                                         *)
C36_AlertModeIffBlockingLevel ==
  pc = "done" => (mode = "MODE_ALERT" <=> alerts.currentLevel >= DANGER)

(* C37: one physical long press (held at least KY040_LONG_PRESS_TIME, then *)
(* released) yields exactly one LONG_PRESS event over the whole hold and   *)
(* release, update() and getButtonEvent() being called in every loop       *)
(* iteration, so that settings mode is toggled exactly once.               *)
C37_OneLongPressEvent ==
  (pc = "done" /\ ~enc.pin /\ ~enc.buttonState
   /\ enc.held >= KY040_LONG_PRESS_TIME) =>
    /\ enc.longEvents = 1
    /\ (mode = "MODE_SETTINGS") # (enc.modeAtPress = "MODE_SETTINGS")

(* C38: whenever SensorManager's gate mq2Preheated is open, the MQ2        *)
(* sensor's own preheat has elapsed: its status is READY, MQ2_PREHEAT_TIME *)
(* having passed since its begin().                                        *)
C38_GateAfterSensorPreheat ==
  (pc \in {"check", "done"} /\ safety.mq2Preheated) =>
    /\ mq2.status = "READY"
    /\ now - mq2.initTime >= MQ2_PREHEAT_TIME

(* readings on each side of, and on, the thresholds of the rules that     *)
(* share a measurement, every other rule firing                            *)
ExclusionSnapshots ==
  {Snap(450, TRUE, TRUE, 3500, 2500, v12, 25000, v5, 4000, t, 90, 10) :
     v12 \in {VOLTAGE_12V_MIN - 1, VOLTAGE_12V_MIN, VOLTAGE_12V_WARNING,
              VOLTAGE_12V_MAX, VOLTAGE_12V_MAX + 1},
     v5 \in {VOLTAGE_5V_MIN - 1, VOLTAGE_5V_MIN, VOLTAGE_5V_MAX,
             VOLTAGE_5V_MAX + 1},
     t \in {-1, 0, TEMP_WARNING, TEMP_WARNING + 1}}

(* C39: the rules of one checkAlerts() cycle raise at most AlertCapacity   *)
(* alerts, whatever the snapshot (12 V low and high, 5 V low and high,     *)
(* temperature high and low never fire together), so that addAlert() drops *)
(* none of them: every record raised in the cycle is in the buffer.        *)
C39_CycleFitsCapacity ==
  pc = "done" =>
    /\ \A sn \in ExclusionSnapshots :
         Len(cycleCalls(sn.safety, sn.power, sn.environment, sn.level))
           <= AlertCapacity
    /\ Len(raised) <= AlertCapacity
    /\ alerts.activeAlertCount = Len(raised)
    /\ \A i \in 1..Len(raised) :
         /\ alerts.alerts[i - 1].active
         /\ alerts.alerts[i - 1].type = raised[i].type
         /\ alerts.alerts[i - 1].level = raised[i].level

(* a cycle in which every rule group fired at once *)
C39_Witness ==
  /\ pc = "done"
  /\ Len(raised) = AlertCapacity

(* C40: silencing is temporary.  While currentLevel stays at WARNING or    *)
(* above, a buzzer switched off by silenceBuzzer() sounds again through    *)
(* updateBuzzer(): at CRITICAL every call leaves the buzzer on, at DANGER  *)
(* and WARNING a call made once the cadence interval has passed since the  *)
(* last toggle switches a silent buzzer on.  The steps that advance the    *)
(* clock are the updateBuzzer() calls.                                     *)
C40_SilenceIsTemporary ==
  [][now' # now =>
       /\ alerts.currentLevel = CRITICAL => asys'.buzzerState
       /\ (alerts.currentLevel \in {WARNING, DANGER} /\ ~asys.buzzerState
           /\ now' - asys.lastBuzzerToggle >= asys.buzzerInterval)
            => asys'.buzzerState
       /\ (alerts.currentLevel \in {WARNING, DANGER} /\ ~asys'.buzzerState)
            => now' - asys'.lastBuzzerToggle < asys'.buzzerInterval]_vars

(* a CRITICAL alarm sounding for the second time in its period: it was     *)
(* silenced and the next updateBuzzer() switched it on again               *)
C40_Witness ==
  /\ alerts.currentLevel = CRITICAL
  /\ asys.buzzerState
  /\ buzz.toggles >= 2

====
